---- MODULE Spec2Model ----
(***************************************************************************)
(* A model of the document ingestion pipeline of gptr-mcp: the path        *)
(* validator (security_utils.py), the directory traverser, the content     *)
(* readers and the loader factory (document_loader_components.py) and the  *)
(* secure orchestrator and loader built on them                            *)
(* (document_loader_secure.py).                                            *)
(*                                                                         *)
(* A file name is a sequence of tokens ("a", ".", "py" for a.py), so that  *)
(* startswith('.'), endswith('~') and pathlib's suffix are computed on the *)
(* name as the code computes them.  A path is a sequence of names, always  *)
(* absolute; <<>> is "/".  File contents are sequences of bytes.           *)
(***************************************************************************)
EXTENDS Integers, Sequences, FiniteSets, TLC

VARIABLES
    fs,      \* the filesystem: canonical path -> node
    phase,   \* "idle" before the call, "done" after it
    call,    \* the operation called and its arguments
    res,     \* what the call returned or raised, and what it touched
    sem,     \* RateLimiter: free slots of the asyncio.Semaphore
    waitq,   \* RateLimiter: FIFO queue of tasks blocked in acquire()
    tasks,   \* concurrent load tasks: id -> record (see SpecConc)
    environ, \* os.environ: variable name -> value
    loader,  \* SecureExtendedDocumentLoader: the allowed_base it was given
             \* (given is FALSE for None) and its self.allowed_base
    formats, \* FileFormatRegistry._formats: key -> FileFormat
    researchers,    \* server.mcp.researchers: research id -> GPTResearcher
    research_store, \* utils.research_store: cache key -> entry
    reqs,    \* the requests the server has received, in the order they came
    runs,    \* the conduct_research and quick_search calls made on the
             \* research engine: who called, with what mode and query
    uuids    \* the number of ids uuid.uuid4() has handed out

vars == <<fs, phase, call, res, sem, waitq, tasks, environ, loader, formats,
          researchers, research_store, reqs, runs, uuids>>
loadVars == <<fs, phase, call, res, environ, loader, formats>>
concVars == <<sem, waitq, tasks>>
srvVars == <<researchers, research_store, reqs, runs, uuids>>

(***************************************************************************)
(* Bounds of the model.  The three limits stand for the constants of       *)
(* security_utils.py (10 MB, 100 MB, depth 10, 1000 files), scaled down so *)
(* that trees below, at and above each limit are all in the model.         *)
(***************************************************************************)
MaxFileSize == 2
\* bytes: stands for MAX_FILE_SIZE
MaxTotalSize == 5
\* bytes: stands for MAX_TOTAL_SIZE
MaxDirectoryDepth == 2
\* levels below the root: stands for MAX_DIRECTORY_DEPTH
MaxFilesPerDirectory == 2
\* stands for MAX_FILES_PER_DIRECTORY
MaxRawLen == 3
\* segments of a raw path handed to validate_path
MaxLinkHops == 2
\* symbolic links followed while resolving one path
MaxConcurrent == 2
\* slots of the rate limiter: stands for CONCURRENT_FILE_LIMIT

(***************************************************************************)
(* Names and paths                                                         *)
(***************************************************************************)
DOT == <<".">>
DOTDOT == <<".", ".">>

N(w) == <<w>>
\* a one-word name
F(stem, ext) == <<stem, ".", ext>>
\* stem.ext

IsPrefix(a, b) == Len(a) <= Len(b) /\ SubSeq(b, 1, Len(a)) = a

Front(s) == SubSeq(s, 1, Len(s) - 1)

Last(s) == s[Len(s)]

SeqsUpTo(S, n) == UNION {[1..k -> S] : k \in 0..n}

(***************************************************************************)
(* The filesystem.  A node is a directory, a regular file or a symbolic    *)
(* link with an absolute target.                                           *)
(***************************************************************************)
Dir(r) == [kind |-> "dir", target |-> <<>>, content |-> <<>>, readable |-> r]
File(c, r) == [kind |-> "file", target |-> <<>>, content |-> c, readable |-> r]
Link(t) == [kind |-> "link", target |-> t, content |-> <<>>, readable |-> TRUE]

BASE == <<N("base")>>
ROOT == <<N("base"), N("r")>>
OUT == <<N("out")>>

\* Path.resolve(): posixpath.realpath, non-strict.  "." is dropped, ".."
\* pops the last physical component, a symbolic link is replaced by its
\* target and resolution goes on; too many links is a failure (ELOOP).
RECURSIVE ResolveFrom(_, _, _)
ResolveFrom(cur, rest, fuel) ==
    IF rest = <<>> THEN [ok |-> TRUE, path |-> cur]
    ELSE LET seg == Head(rest)
             tl == Tail(rest)
         IN  IF seg = DOT THEN ResolveFrom(cur, tl, fuel)
             ELSE IF seg = DOTDOT
                  THEN ResolveFrom(IF cur = <<>> THEN cur ELSE Front(cur), tl, fuel)
             ELSE LET np == Append(cur, seg)
                  IN  IF np \in DOMAIN fs /\ fs[np].kind = "link"
                      THEN IF fuel = 0 THEN [ok |-> FALSE, path |-> <<>>]
                           ELSE ResolveFrom(<<>>, fs[np].target \o tl, fuel - 1)
                      ELSE ResolveFrom(np, tl, fuel)

Resolve(p) == ResolveFrom(<<>>, p, MaxLinkHops)

PathTraversalError == [ok |-> FALSE, path |-> <<>>, err |-> "PathTraversalError"]

\* validate_path with containment decided on the raw strings
validate_path_rawprefix(path, allowed_base) ==
    IF IsPrefix(allowed_base, path)
    THEN [ok |-> TRUE, path |-> Resolve(path).path, err |-> "none"]
    ELSE PathTraversalError

\* security_utils.validate_path: any exception of resolve() and the
\* ValueError of relative_to (the parts of the base are not a prefix of the
\* parts of the path) leave as PathTraversalError
validate_path(path, allowed_base) ==
    LET Checked(resolved, allowed) ==
            IF ~resolved.ok \/ ~allowed.ok THEN PathTraversalError
            ELSE IF ~IsPrefix(allowed.path, resolved.path) THEN PathTraversalError
            ELSE [ok |-> TRUE, path |-> resolved.path, err |-> "none"]
    IN  Checked(Resolve(path), Resolve(allowed_base))

(***************************************************************************)
(* Filesystems the model starts from.  Every one holds /base (the allowed  *)
(* base), /base/r (the directory that is loaded) and /out/s.py, a file     *)
(* outside the base.                                                       *)
(***************************************************************************)
Fill(h, n) == [i \in 1..n |-> IF i = 1 THEN h ELSE 65]
\* n bytes: h, then 'A's

SECRET == <<83>>
\* the content of files that must not be loaded

\* contents of 1 to MaxFileSize + 1 bytes, valid UTF-8 and not, one of them
\* ending in a carriage return
Contents ==
    {Fill(65, n) : n \in 1..(MaxFileSize + 1)} \cup {<<195, 169>>, <<65, 13>>}
    \cup {Fill(255, n) : n \in 1..(MaxFileSize + 1)}

A_PY == Append(ROOT, F("a", "py"))
S_PY == Append(OUT, F("s", "py"))
OUT_IN == Append(OUT, N("in"))
GONE == Append(ROOT, F("gone", "py"))

CommonFs ==
    (<<>> :> Dir(TRUE)) @@ (BASE :> Dir(TRUE)) @@ (ROOT :> Dir(TRUE))
    @@ (OUT :> Dir(TRUE)) @@ (S_PY :> File(SECRET, TRUE))

\* two sibling files a.<e> and b.<e2> in /base/r
FsTwoFiles ==
    { CommonFs @@ (Append(ROOT, F("a", e)) :> File(c, r))
               @@ (Append(ROOT, F("b", e2)) :> File(c2, TRUE)) :
        e \in {"py", "md", "pdf", "txt"}, c \in Contents, r \in BOOLEAN,
        e2 \in {"py", "md"}, c2 \in {Fill(65, 1), Fill(65, MaxFileSize + 1)} }

\* /base/r/lnk.py is a symbolic link, and so is /out/in
FsLinks ==
    { CommonFs @@ (A_PY :> File(Fill(65, 1), TRUE))
               @@ (Append(ROOT, F("lnk", "py")) :> Link(t)) @@ (OUT_IN :> Link(t2)) :
        t \in {S_PY, A_PY, OUT, GONE}, t2 \in {BASE, ROOT} }

RECURSIVE ChainDir(_, _)
ChainDir(top, depth) ==
    IF depth = 1 THEN Append(ROOT, top) ELSE Append(ChainDir(top, depth - 1), N("x"))

FileNo(i) == F(IF i = 1 THEN "f1" ELSE IF i = 2 THEN "f2" ELSE IF i = 3 THEN "f3"
               ELSE IF i = 4 THEN "f4" ELSE "f5", "py")

\* /base/r/a.py and below /base/r/<top> a chain of directories `depth` deep
\* whose last one holds `n` files of content c
Chain(top, depth, n, c, r) ==
    [p \in {ChainDir(top, k) : k \in 1..depth} |->
        IF p = ChainDir(top, 1) THEN Dir(r) ELSE Dir(TRUE)]
    @@ [p \in {Append(ChainDir(top, depth), FileNo(i)) : i \in 1..n} |-> File(c, TRUE)]

FsTrees ==
    { CommonFs @@ (A_PY :> File(Fill(65, 1), TRUE)) @@ Chain(top, depth, n, c, r) :
        top \in {N("sub"), N("node_modules"), <<".", "git">>}, depth \in 1..(MaxDirectoryDepth + 1),
        n \in 1..(MaxFilesPerDirectory + 1),
        c \in {SECRET, Fill(65, MaxFileSize), Fill(65, MaxFileSize + 1)},
        r \in BOOLEAN }

\* /base/r/a.py beside a hidden file and a backup file
FsHidden ==
    { CommonFs @@ (A_PY :> File(Fill(65, 1), TRUE))
               @@ (Append(ROOT, <<".", "h">>) :> File(SECRET, TRUE))
               @@ (Append(ROOT, <<"c", ".", "py", "~">>) :> File(SECRET, TRUE)) }

\* /base/r/a.hs and /out/s.hs, files of a format document_loader.py adds
FsExtended ==
    { CommonFs @@ (Append(ROOT, F("a", "hs")) :> File(c, TRUE))
               @@ (Append(OUT, F("s", "hs")) :> File(SECRET, TRUE)) :
        c \in {Fill(65, 1), <<65, 255>>} }

\* /base/r/a.py and /base/r/sub/a.py, two files of one name
FsSameName ==
    { CommonFs @@ (A_PY :> File(c, TRUE)) @@ (Append(ROOT, N("sub")) :> Dir(TRUE))
               @@ (ROOT \o <<N("sub"), F("a", "py")>> :> File(c2, TRUE)) :
        c \in {Fill(65, 1), <<195, 169>>}, c2 \in {Fill(65, 1), SECRET} }

(***************************************************************************)
(* Looking at the filesystem                                               *)
(***************************************************************************)
NoNode == [kind |-> "none", target |-> <<>>, content |-> <<>>, readable |-> FALSE]

\* os.stat: the node a path leads to, symbolic links followed
Stat(p) ==
    LET At(r) == IF r.ok /\ r.path \in DOMAIN fs THEN fs[r.path] ELSE NoNode
    IN  At(Resolve(p))

IsFile(p) == Stat(p).kind = "file"
IsDirectory(p) == Stat(p).kind = "dir"
IsLink(p) == p \in DOMAIN fs /\ fs[p].kind = "link"
StSize(p) == Len(Stat(p).content)

\* reading the bytes of a node: the bytes, or the OSError raised
ReadNode(n) ==
    IF n.kind = "none" THEN [ok |-> FALSE, bytes |-> <<>>, err |-> "FileNotFoundError"]
    ELSE IF n.kind = "dir" THEN [ok |-> FALSE, bytes |-> <<>>, err |-> "IsADirectoryError"]
    ELSE IF ~n.readable THEN [ok |-> FALSE, bytes |-> <<>>, err |-> "PermissionError"]
    ELSE [ok |-> TRUE, bytes |-> n.content, err |-> "none"]

\* Path.read_bytes()
ReadBytes(p) == ReadNode(Stat(p))

(***************************************************************************)
(* Decoding.  A text is a sequence of code points.                         *)
(***************************************************************************)
REPLACEMENT == 65533
\* U+FFFD

IsCont(b) == b >= 128 /\ b <= 191

\* the length of the well-formed UTF-8 sequence bs starts with, 0 if none
Utf8SeqLen(bs) ==
    LET b == bs[1]
        n == Len(bs)
    IN  IF b < 128 THEN 1
        ELSE IF b >= 194 /\ b <= 223 /\ n >= 2 /\ IsCont(bs[2]) THEN 2
        ELSE IF b >= 224 /\ b <= 239 /\ n >= 3 /\ IsCont(bs[2]) /\ IsCont(bs[3])
                /\ (b = 224 => bs[2] >= 160) /\ (b = 237 => bs[2] <= 159) THEN 3
        ELSE IF b >= 240 /\ b <= 244 /\ n >= 4 /\ IsCont(bs[2]) /\ IsCont(bs[3])
                /\ IsCont(bs[4])
                /\ (b = 240 => bs[2] >= 144) /\ (b = 244 => bs[2] <= 143) THEN 4
        ELSE 0

Utf8CodePoint(bs, k) ==
    IF k = 1 THEN bs[1]
    ELSE IF k = 2 THEN (bs[1] - 192) * 64 + (bs[2] - 128)
    ELSE IF k = 3 THEN (bs[1] - 224) * 4096 + (bs[2] - 128) * 64 + (bs[3] - 128)
    ELSE (bs[1] - 240) * 262144 + (bs[2] - 128) * 4096 + (bs[3] - 128) * 64 + (bs[4] - 128)

\* the bytes an ill-formed sequence loses to one U+FFFD: its maximal subpart
BadLen(bs) ==
    LET SecondOk(b) ==
            /\ Len(bs) >= 2 /\ IsCont(bs[2])
            /\ (b = 224 => bs[2] >= 160) /\ (b = 237 => bs[2] <= 159)
            /\ (b = 240 => bs[2] >= 144) /\ (b = 244 => bs[2] <= 143)
    IN  IF bs[1] >= 224 /\ bs[1] <= 239 /\ SecondOk(bs[1]) THEN 2
        ELSE IF bs[1] >= 240 /\ bs[1] <= 244 /\ SecondOk(bs[1])
             THEN IF Len(bs) >= 3 /\ IsCont(bs[3]) THEN 3 ELSE 2
        ELSE 1

\* bytes.decode('utf-8', errors): strict fails on the first ill-formed
\* sequence, replace puts U+FFFD for it
RECURSIVE Utf8From(_, _, _)
Utf8From(bs, acc, replace) ==
    LET Step(k) ==
            IF k > 0
            THEN Utf8From(SubSeq(bs, k + 1, Len(bs)), Append(acc, Utf8CodePoint(bs, k)),
                          replace)
            ELSE IF replace
            THEN Utf8From(SubSeq(bs, BadLen(bs) + 1, Len(bs)), Append(acc, REPLACEMENT),
                          replace)
            ELSE [ok |-> FALSE, text |-> <<>>]
    IN  IF bs = <<>> THEN [ok |-> TRUE, text |-> acc] ELSE Step(Utf8SeqLen(bs))

\* bytes.decode(encoding), strict; utf-8-sig drops a leading EF BB BF;
\* latin-1, iso-8859-1 and, for the bytes of the model, cp1252: byte b is
\* U+00b
Decode(bs, encoding) ==
    IF encoding = "utf-8" THEN Utf8From(bs, <<>>, FALSE)
    ELSE IF encoding = "utf-8-sig"
    THEN Utf8From(IF IsPrefix(<<239, 187, 191>>, bs) THEN SubSeq(bs, 4, Len(bs)) ELSE bs,
                  <<>>, FALSE)
    ELSE [ok |-> TRUE, text |-> bs]

\* what read_text makes of the bytes read, or of the failure to read them.
\* The file is opened in text mode with universal newlines: "\r\n" and a
\* lone "\r" are handed over as "\n".
DecodeRead(b, encoding) ==
    LET Kept(t) == {i \in 1..Len(t) : ~(t[i] = 10 /\ i > 1 /\ t[i - 1] = 13)}
        Nth(I, k) == CHOOSE i \in I : Cardinality({j \in I : j < i}) = k - 1
        At(t, i) == IF t[i] = 13 THEN 10 ELSE t[i]
        Newlines(t) == [k \in 1..Cardinality(Kept(t)) |-> At(t, Nth(Kept(t), k))]
        TextOrError(d) ==
            IF d.ok THEN [ok |-> TRUE, text |-> Newlines(d.text), err |-> "none"]
            ELSE [ok |-> FALSE, text |-> <<>>, err |-> "UnicodeDecodeError"]
    IN  IF ~b.ok THEN [ok |-> FALSE, text |-> <<>>, err |-> b.err]
        ELSE TextOrError(Decode(b.bytes, encoding))

\* Path.read_text(encoding): reads all the bytes, then decodes them
ReadText(p, encoding) == DecodeRead(ReadBytes(p), encoding)

(***************************************************************************)
(* File names, the format registry and the loader factory                  *)
(***************************************************************************)
Name(p) == IF p = <<>> THEN <<>> ELSE Last(p)
\* Path.name

\* str.lower() of a word
Lower(w) ==
    IF w = "MD" THEN "md" ELSE IF w = "PY" THEN "py" ELSE IF w = "PDF" THEN "pdf" ELSE w

\* Path.suffix.lower().strip('.'): what follows the last dot of the name,
\* unless that dot is the first or the last character
Ext(p) ==
    LET LastDot(nm) ==
            IF \E i \in 1..Len(nm) : nm[i] = "."
            THEN CHOOSE j \in 1..Len(nm) :
                    nm[j] = "." /\ \A k \in (j + 1)..Len(nm) : nm[k] # "."
            ELSE 0
        After(nm, i) ==
            IF i > 1 /\ i < Len(nm)
            THEN [k \in 1..(Len(nm) - i) |-> Lower(nm[i + k])]
            ELSE <<>>
    IN  After(Name(p), LastDot(Name(p)))

None == [none |-> TRUE]
\* Python's None, where a FileFormat is optional

\* FileFormatRegistry._initialize_formats, the extensions the model uses
StandardExts == {"pdf", "doc", "docx", "pptx", "xls", "xlsx", "csv", "md", "html", "htm"}

\* the registry after FileFormatRegistry.__init__: one FileFormat per key
InitialFormats ==
    LET Description(e) ==
            IF e = "pdf" THEN "PDF" ELSE IF e \in {"doc", "docx"} THEN "Word"
            ELSE IF e = "pptx" THEN "PowerPoint" ELSE IF e \in {"xls", "xlsx"} THEN "Excel"
            ELSE IF e = "csv" THEN "CSV" ELSE IF e = "md" THEN "Markdown"
            ELSE IF e \in {"html", "htm"} THEN "HTML" ELSE IF e = "py" THEN "Python"
            ELSE IF e = "js" THEN "JavaScript" ELSE IF e = "rs" THEN "Rust"
            ELSE "Haskell"
    IN  [k \in {<<e>> : e \in StandardExts \cup {"py", "js", "rs", "hs"}} |->
            [extension |-> k,
             category |-> IF k[1] \in StandardExts THEN "standard" ELSE "programming",
             description |-> Description(k[1]), mime_type |-> None]]

\* extension.lower(), and with `strip` extension.lower().strip('.'): the
\* dots at both ends are dropped
LowerStrip(extension, strip) ==
    LET Inner(e) == {i \in 1..Len(e) : e[i] # "."}
        Stripped(e) ==
            IF Inner(e) = {} THEN <<>>
            ELSE SubSeq(e, CHOOSE i \in Inner(e) : \A j \in Inner(e) : i <= j,
                        CHOOSE i \in Inner(e) : \A j \in Inner(e) : j <= i)
        Lowered(e) == [i \in 1..Len(e) |-> Lower(e[i])]
    IN  IF strip THEN Stripped(Lowered(extension)) ELSE Lowered(extension)

\* FileFormatRegistry.get_format: self._formats.get(key)
get_format(extension) ==
    LET Get(key) == IF key \in DOMAIN formats THEN formats[key] ELSE None
    IN  Get(LowerStrip(extension, TRUE))

\* FileFormatRegistry.get_category
get_category(ext) ==
    LET Category(fmt) == IF fmt = None THEN "unknown" ELSE fmt.category
    IN  Category(get_format(ext))

\* FileFormatRegistry.is_supported
is_supported(extension) == LowerStrip(extension, TRUE) \in DOMAIN formats

\* LoaderFactory.create_loader: the strategy chosen for a path
create_loader(p) == IF get_category(Ext(p)) = "standard" THEN "standard" ELSE "text"

(***************************************************************************)
(* Documents.  raw_content is a text, url a file name, source a path.      *)
(***************************************************************************)
\* "[File could not be decoded]"
COULD_NOT_BE_DECODED ==
    <<91, 70, 105, 108, 101, 32, 99, 111, 117, 108, 100, 32, 110, 111, 116, 32,
      98, 101, 32, 100, 101, 99, 111, 100, 101, 100, 93>>

\* " content would be extracted here]"
WOULD_BE_EXTRACTED ==
    <<32, 99, 111, 110, 116, 101, 110, 116, 32, 119, 111, 117, 108, 100, 32, 98, 101,
      32, 101, 120, 116, 114, 97, 99, 116, 101, 100, 32, 104, 101, 114, 101, 93>>

\* ext.upper(), as a text
UpperText(w) ==
    IF w = "pdf" THEN <<80, 68, 70>>
    ELSE IF w = "doc" THEN <<68, 79, 67>>
    ELSE IF w = "docx" THEN <<68, 79, 67, 88>>
    ELSE IF w = "pptx" THEN <<80, 80, 84, 88>>
    ELSE IF w = "xls" THEN <<88, 76, 83>>
    ELSE <<88, 76, 83, 88>>

\* security_utils.get_safe_filename: the name alone, every character
\* outside [A-Za-z0-9.-_] replaced by '_' (the words of a name are safe, '~'
\* is not); names of the model are shorter than the 100 characters kept
get_safe_filename(p) ==
    LET Safe(nm) ==
            IF nm = <<>> THEN <<"unnamed">>
            ELSE [i \in 1..Len(nm) |-> IF nm[i] = "~" THEN "_" ELSE nm[i]]
    IN  Safe(Name(p))

\* what a step returns: documents, the paths whose bytes it read, the paths
\* validate_path returned, the directories it listed, the exception raised
\* and the exception an except clause caught
R(docs, reads, validated, listed, raised) ==
    [docs |-> docs, reads |-> reads, validated |-> validated, listed |-> listed,
     raised |-> raised, caught |-> "none"]

\* the step caught exception e, logged it and returned []
Caught(r, e) == [r EXCEPT !.docs = <<>>, !.raised = "none", !.caught = e]

NoDocs == R(<<>>, {}, {}, {}, "none")

(***************************************************************************)
(* Content readers                                                         *)
(***************************************************************************)
\* check_file_size on the node the path leads to: the exception raised
SizeError(n) ==
    IF n.kind = "none" THEN "none"
    ELSE IF Len(n.content) > MaxFileSize THEN "FileSizeError"
    ELSE "none"

\* security_utils.check_file_size: the exception raised, if any
check_file_size(p) == SizeError(Stat(p))

\* security_utils.safe_read_file: any exception of the read itself leaves
\* as SecurityError
safe_read_file(p, encoding) ==
    LET Failed(err, wasread) ==
            [ok |-> FALSE, text |-> <<>>, err |-> err, read |-> wasread]
        Text(t, wasread) ==
            IF t.ok THEN [ok |-> TRUE, text |-> t.text, err |-> "none", read |-> TRUE]
            ELSE Failed("SecurityError", wasread)
        Bytes(b) == Text(DecodeRead(b, encoding), b.ok)
        Node(n) ==
            IF n.kind = "none" THEN Failed("FileNotFoundError", FALSE)
            ELSE IF n.kind # "file" THEN Failed("SecurityError", FALSE)
            ELSE IF SizeError(n) # "none" THEN Failed("FileSizeError", FALSE)
            ELSE Bytes(ReadNode(n))
    IN  Node(Stat(p))

\* SecureTextDocumentProcessor.process: the loop over the encodings; every
\* exception of safe_read_file moves on to the next encoding
RECURSIVE SecureTryEncodings(_, _, _)
SecureTryEncodings(p, encs, reads) ==
    LET TextDoc(text, safe) ==
            [raw_content |-> text, url |-> safe,
             metadata |-> [encoding |-> Head(encs), source |-> <<safe>>]]
        ErrorDoc(safe) ==
            [raw_content |-> COULD_NOT_BE_DECODED, url |-> safe,
             metadata |-> [error |-> "encoding_failure"]]
        Tried(t) ==
            IF t.ok
            THEN R(<<TextDoc(t.text, get_safe_filename(p))>>, reads \cup {p}, {}, {}, "none")
            ELSE SecureTryEncodings(p, Tail(encs),
                                    IF t.read THEN reads \cup {p} ELSE reads)
    IN  IF encs = <<>>
        THEN R(<<ErrorDoc(get_safe_filename(p))>>, reads, {}, {}, "none")
        ELSE Tried(safe_read_file(p, Head(encs)))

\* SecureTextDocumentProcessor.process
SecureTextProcess(p) ==
    LET Checked(e) ==
            IF e # "none" THEN Caught(NoDocs, e)
            ELSE SecureTryEncodings(p, <<"utf-8", "utf-8-sig", "latin-1">>, {})
    IN  Checked(check_file_size(p))

BaseTextDoc(text, encoding, p) ==
    [raw_content |-> text, url |-> Name(p),
     metadata |-> [encoding |-> encoding, source |-> p]]

\* TextDocumentProcessor._load_binary_fallback:
\* read_bytes().decode('utf-8', errors='replace')
load_binary_fallback(p, reads) ==
    LET Fallback(b) ==
            IF b.ok
            THEN R(<<BaseTextDoc(Utf8From(b.bytes, <<>>, TRUE).text, "binary_fallback", p)>>,
                   reads \cup {p}, {}, {}, "none")
            ELSE R(<<>>, reads, {}, {}, "none")
    IN  Fallback(ReadBytes(p))

\* TextDocumentProcessor.process: the loop over the encodings; every
\* exception of read_text moves on to the next encoding
RECURSIVE BaseTryEncodings(_, _, _)
BaseTryEncodings(p, encs, reads) ==
    LET Text(t, rd) ==
            IF t.ok THEN R(<<BaseTextDoc(t.text, Head(encs), p)>>, rd, {}, {}, "none")
            ELSE BaseTryEncodings(p, Tail(encs), rd)
        Bytes(b) == Text(DecodeRead(b, Head(encs)), IF b.ok THEN reads \cup {p} ELSE reads)
    IN  IF encs = <<>> THEN load_binary_fallback(p, reads) ELSE Bytes(ReadBytes(p))

BaseTextProcess(p) ==
    BaseTryEncodings(p, <<"utf-8", "utf-8-sig", "latin-1", "cp1252", "iso-8859-1">>, {})

\* StandardDocumentProcessor.process: md, csv, html and htm are read as
\* UTF-8 text, the other formats answer with a placeholder
StandardProcess(p) ==
    LET Doc(text, ext) ==
            [raw_content |-> text, url |-> Name(p),
             metadata |-> [format |-> ext, source |-> p]]
        Placeholder(ext) ==
            [raw_content |-> <<91>> \o UpperText(ext) \o WOULD_BE_EXTRACTED,
             url |-> Name(p),
             metadata |-> [format |-> ext, source |-> p, placeholder |-> TRUE]]
        Text(t, ext, wasread) ==
            R(IF t.ok THEN <<Doc(t.text, ext)>> ELSE <<>>,
              IF wasread THEN {p} ELSE {}, {}, {}, "none")
        Bytes(b, ext) == Text(DecodeRead(b, "utf-8"), ext, b.ok)
        OfExt(ext) ==
            IF ~(Len(ext) = 1 /\ ext[1] \in StandardExts) THEN NoDocs
            ELSE IF ext[1] \in {"md", "csv", "html", "htm"} THEN Bytes(ReadBytes(p), ext[1])
            ELSE R(<<Placeholder(ext[1])>>, {}, {}, {}, "none")
    IN  OfExt(Ext(p))

(***************************************************************************)
(* Directory traversal                                                     *)
(***************************************************************************)
RECURSIVE SetToSeq(_)
SetToSeq(S) ==
    IF S = {} THEN <<>>
    ELSE <<CHOOSE y \in S : TRUE>> \o SetToSeq(S \ {CHOOSE y \in S : TRUE})

\* DirectoryTraverser.DEFAULT_SKIP_DIRS
DEFAULT_SKIP_DIRS ==
    { <<".", "git">>, <<".", "svn">>, <<".", "hg">>, N("__pycache__"), <<".", "venv">>,
      N("venv"), N("env"), <<".", "tox">>, <<".", "pytest_cache">>, N("node_modules"),
      N("bower_components"), N("dist"), N("build"), N("target"), N("out"), N("bin"),
      N("obj"), <<".", "idea">>, <<".", "vscode">>, <<".", "vs">>, N("vendor"),
      N("deps"), <<".", "terraform">>, <<".", "serverless">> }

\* DirectoryTraverser.__init__; given is FALSE for skip_dirs=None, and an
\* empty set is as false as None is
DirectoryTraverser(given, skip_dirs, skip_hidden) ==
    [skip_dirs |-> IF given /\ skip_dirs # {} THEN skip_dirs ELSE DEFAULT_SKIP_DIRS,
     skip_hidden |-> skip_hidden]

\* DirectoryTraverser.should_skip_directory
ShouldSkipDirectory(self, dirname) ==
    \/ self.skip_hidden /\ dirname # <<>> /\ dirname[1] = "."
    \/ dirname \in self.skip_dirs

\* should_skip_directory of the traverser the orchestrators construct,
\* DirectoryTraverser()
should_skip_directory(dirname) ==
    ShouldSkipDirectory(DirectoryTraverser(FALSE, {}, TRUE), dirname)

\* DirectoryTraverser.should_skip_file, skip_hidden set
should_skip_file(filename) ==
    \/ filename # <<>> /\ filename[1] = "."
    \/ filename # <<>> /\ Last(filename) = "~"

\* os.scandir: the names in a directory
ChildNames(d) ==
    LET In(rd) ==
            {Last(q) : q \in {q \in DOMAIN fs : Len(q) = Len(rd) + 1 /\ Front(q) = rd}}
    IN  In(Resolve(d).path)

\* os.walk(top), top-down, followlinks off, errors ignored: one visit per
\* directory it tries to list.  A directory that cannot be listed yields
\* nothing (ok is FALSE); with `filtered` the caller prunes `dirs` in place
\* (DirectoryTraverser.traverse) before the walk descends, and the walk
\* does not descend into a symbolic link.
RECURSIVE Walk(_, _)
RECURSIVE WalkAll(_, _, _)
Walk(d, filtered) ==
    LET Listable(n) == n.kind = "dir" /\ n.readable
        Descended(dirs) == SelectSeq(dirs, LAMBDA n : ~IsLink(Append(d, n)))
        Pruned(dirs) ==
            IF filtered THEN SelectSeq(dirs, LAMBDA n : ~should_skip_directory(n))
            ELSE dirs
        Split(dirs, files) ==
            <<[root |-> d, ok |-> TRUE, dirs |-> dirs, files |-> files]>>
            \o WalkAll(d, Descended(Pruned(dirs)), filtered)
        Listed(names) ==
            Split(SelectSeq(names, LAMBDA n : IsDirectory(Append(d, n))),
                  SelectSeq(names, LAMBDA n : ~IsDirectory(Append(d, n))))
    IN  IF ~Listable(Stat(d))
        THEN <<[root |-> d, ok |-> FALSE, dirs |-> <<>>, files |-> <<>>]>>
        ELSE Listed(SetToSeq(ChildNames(d)))

WalkAll(d, names, filtered) ==
    IF names = <<>> THEN <<>>
    ELSE Walk(Append(d, Head(names)), filtered) \o WalkAll(d, Tail(names), filtered)

Roots(visits) == {visits[i].root : i \in 1..Len(visits)}

\* the bytes the loop over `files` adds to stats['total_size']:
\* file_path.stat().st_size if file_path.is_file()
RECURSIVE SizeOfFiles(_, _)
SizeOfFiles(root, files) ==
    LET SizeIfFile(n) == IF n.kind = "file" THEN Len(n.content) ELSE 0
    IN  IF files = <<>> THEN 0
        ELSE SizeIfFile(Stat(Append(root, Head(files)))) + SizeOfFiles(root, Tail(files))

\* security_utils.validate_directory_traversal, the loop over os.walk(path):
\* the exception raised and the number of visits made before it
RECURSIVE ValidateVisits(_, _, _, _)
ValidateVisits(path, visits, i, total) ==
    LET Visit(v, t) ==
            IF Len(v.root) - Len(path) > MaxDirectoryDepth
            THEN [err |-> "SecurityError", upto |-> i]
            ELSE IF Len(v.files) > MaxFilesPerDirectory
            THEN [err |-> "SecurityError", upto |-> i]
            ELSE IF t > MaxTotalSize THEN [err |-> "SecurityError", upto |-> i]
            ELSE ValidateVisits(path, visits, i + 1, t)
    IN  IF i > Len(visits) THEN [err |-> "none", upto |-> Len(visits)]
        ELSE IF ~visits[i].ok THEN ValidateVisits(path, visits, i + 1, total)
        ELSE Visit(visits[i], total + SizeOfFiles(visits[i].root, visits[i].files))

\* the os.walk(path) of validate_directory_traversal: nothing is pruned
ValidationWalk(path) == Walk(path, FALSE)

\* a validation that looks at the root directory alone
validate_directory_traversal_rootonly(path) ==
    LET Walked(visits) ==
            [err |-> ValidateVisits(path, SubSeq(visits, 1, 1), 1, 0).err, listed |-> {path}]
    IN  IF ~IsDirectory(path) THEN [err |-> "ValueError", listed |-> {}]
        ELSE Walked(ValidationWalk(path))

\* security_utils.validate_directory_traversal
validate_directory_traversal(path) ==
    LET Verdict(visits, r) == [err |-> r.err, listed |-> Roots(SubSeq(visits, 1, r.upto))]
        Walked(visits) == Verdict(visits, ValidateVisits(path, visits, 1, 0))
    IN  IF ~IsDirectory(path) THEN [err |-> "ValueError", listed |-> {}]
        ELSE Walked(ValidationWalk(path))

\* the files of the visits, backup and hidden files left out
RECURSIVE FilesOf(_)
FilesOf(visits) ==
    LET Kept(root, keep) == [i \in 1..Len(keep) |-> Append(root, keep[i])]
    IN  IF visits = <<>> THEN <<>>
        ELSE Kept(Head(visits).root,
                  SelectSeq(Head(visits).files, LAMBDA n : ~should_skip_file(n)))
             \o FilesOf(Tail(visits))

\* what a traversal returns: the files, the directories it listed, the
\* paths validate_path returned and the exception raised
T(files, listed, validated, raised) ==
    [files |-> files, listed |-> listed, validated |-> validated, raised |-> raised]

\* DirectoryTraverser.traverse
traverse(path) ==
    LET Of(visits) == T(FilesOf(visits), Roots(visits), {}, "none")
    IN  Of(Walk(path, TRUE))

\* SecureDirectoryTraverser.traverse, allowed_base set: a SecurityError is
\* raised again, any other exception gives []
SecureTraverse(path, allowed_base) ==
    LET Traversed(vp, d, t) == T(t.files, d.listed \cup t.listed, {vp}, "none")
        Checked(vp, d) ==
            IF d.err = "SecurityError" THEN T(<<>>, d.listed, {vp}, "SecurityError")
            ELSE IF d.err # "none" THEN T(<<>>, d.listed, {vp}, "none")
            ELSE Traversed(vp, d, traverse(vp))
        Validated(v) ==
            IF ~v.ok THEN T(<<>>, {}, {}, v.err)
            ELSE Checked(v.path, validate_directory_traversal(v.path))
    IN  Validated(validate_path(path, allowed_base))

(***************************************************************************)
(* The orchestrators and the secure loader                                 *)
(***************************************************************************)
\* SecureExtendedDocumentLoader.__init__: the allowed_base given, else
\* DOC_PATH if it is set and exists, else Path.cwd(), which is /base
LoaderInit(given, allowed_base) ==
    [given |-> given,
     allowed_base |->
        IF given THEN Resolve(allowed_base).path
        ELSE IF "DOC_PATH" \in DOMAIN environ /\ Stat(environ["DOC_PATH"]).kind # "none"
        THEN Resolve(environ["DOC_PATH"]).path
        ELSE BASE]

AllowedBase == loader.allowed_base
\* the allowed_base the secure loader hands its orchestrator

Merge(a, b) ==
    [docs |-> a.docs \o b.docs, reads |-> a.reads \cup b.reads,
     validated |-> a.validated \cup b.validated, listed |-> a.listed \cup b.listed,
     raised |-> IF a.raised # "none" THEN a.raised ELSE b.raised,
     caught |-> IF a.caught # "none" THEN a.caught ELSE b.caught]

\* DocumentLoaderOrchestrator.load_file
BaseLoadFile(p) ==
    IF create_loader(p) = "standard" THEN StandardProcess(p) ELSE BaseTextProcess(p)

\* loader = self.factory.create_loader(path); await loader.load(path), the
\* factory holding the secure text processor
SecureProcess(p) ==
    IF create_loader(p) = "standard" THEN StandardProcess(p) ELSE SecureTextProcess(p)

\* load_file handing the loader the path as it was given
SecureLoadFile_unvalidated(p) == SecureProcess(p)

\* SecureDocumentLoaderOrchestrator.load_file: every exception is caught
SecureLoadFile(p) ==
    LET Validated(v) ==
            IF ~v.ok THEN Caught(NoDocs, v.err)
            ELSE Merge(R(<<>>, {}, {v.path}, {}, "none"), SecureProcess(v.path))
    IN  Validated(validate_path(p, AllowedBase))

LoadFileOf(secure, p) == IF secure THEN SecureLoadFile(p) ELSE BaseLoadFile(p)

\* DocumentLoaderOrchestrator.load_files, which the secure orchestrator
\* inherits: asyncio.gather(*tasks, return_exceptions=True) and the loop
\* over its results, where a list is added and an exception is logged
RECURSIVE LoadFiles(_, _)
LoadFiles(secure, paths) ==
    LET Gathered(r, rest) ==
            IF r.raised = "none" THEN Merge(r, rest) ELSE Merge(Caught(r, r.raised), rest)
    IN  IF paths = <<>> THEN NoDocs
        ELSE Gathered(LoadFileOf(secure, Head(paths)), LoadFiles(secure, Tail(paths)))

\* DocumentLoaderOrchestrator.load_directory
BaseLoadDirectory(d) ==
    LET Traversed(t) == Merge(R(<<>>, {}, {}, t.listed, "none"), LoadFiles(FALSE, t.files))
    IN  Traversed(traverse(d))

\* SecureDocumentLoaderOrchestrator.load_directory, the loop over the files
RECURSIVE SecureLoadEach(_)
SecureLoadEach(files) ==
    IF files = <<>> THEN NoDocs
    ELSE Merge(SecureLoadFile(Head(files)), SecureLoadEach(Tail(files)))

\* SecureDocumentLoaderOrchestrator.load_directory: a SecurityError of the
\* validation or of the traversal is caught, logged and answered with []
SecureLoadDirectory(d) ==
    LET Traversed(vp, t) ==
            Merge(R(<<>>, {}, {vp} \cup t.validated, t.listed, "none"),
                  IF t.raised # "none" THEN Caught(NoDocs, t.raised)
                  ELSE SecureLoadEach(t.files))
        Validated(v) ==
            IF ~v.ok THEN Caught(NoDocs, v.err)
            ELSE Traversed(v.path, SecureTraverse(v.path, AllowedBase))
    IN  Validated(validate_path(d, AllowedBase))

\* SecureExtendedDocumentLoader.load, self.path a list: the entries that do
\* not validate are skipped
RECURSIVE ValidateAll(_)
ValidateAll(paths) ==
    LET Entry(v) == IF v.ok THEN <<v.path>> ELSE <<>>
    IN  IF paths = <<>> THEN <<>>
        ELSE Entry(validate_path(Head(paths), AllowedBase)) \o ValidateAll(Tail(paths))

Range(s) == {s[i] : i \in 1..Len(s)}

\* SecureExtendedDocumentLoader.load
LoaderLoad(arg) ==
    LET List(vs, n) ==
            Merge(IF Len(vs) < n
                  THEN Caught(R(<<>>, {}, Range(vs), {}, "none"), "PathTraversalError")
                  ELSE R(<<>>, {}, Range(vs), {}, "none"),
                  LoadFiles(TRUE, vs))
        OfKind(vp, kind) ==
            Merge(R(<<>>, {}, {vp}, {}, "none"),
                  IF kind = "file" THEN SecureLoadFile(vp)
                  ELSE IF kind = "dir" THEN SecureLoadDirectory(vp)
                  ELSE NoDocs)
        Str(v) == IF ~v.ok THEN Caught(NoDocs, v.err) ELSE OfKind(v.path, Stat(v.path).kind)
    IN  IF arg.shape = "list" THEN List(ValidateAll(arg.paths), Len(arg.paths))
        ELSE IF arg.shape = "str" THEN Str(validate_path(arg.path, AllowedBase))
        ELSE NoDocs

(***************************************************************************)
(* The calls.  One call is made on the filesystem the model started from;  *)
(* res holds what it returned and what it touched.                         *)
(***************************************************************************)
MaxListLen == 2
\* entries of a list of paths handed to a batch call

\* the server has just been started
NoRequests ==
    /\ researchers = [i \in {} |-> <<>>]
    /\ research_store = [k \in {} |-> <<>>]
    /\ reqs = <<>>
    /\ runs = <<>>
    /\ uuids = 0

NoCall == [op |-> "none"]
NoRes == [outcome |-> "none"]

Outcome(r) ==
    [outcome |-> IF r.raised = "none" THEN "returned" ELSE "raised",
     docs |-> r.docs, reads |-> r.reads, validated |-> r.validated,
     listed |-> r.listed, raised |-> r.raised, caught |-> r.caught]

\* the paths the calls are made with: what /base/r holds, two paths that
\* do not exist, a file outside the base, and that file again spelt from
\* inside the base
FilePaths ==
    {p \in DOMAIN fs : Len(p) = 3 /\ Front(p) = ROOT /\ fs[p].kind # "dir"}
    \cup {p \in DOMAIN fs : Len(p) = 4 /\ Last(p) = F("a", "py")}
    \cup {GONE, Append(ROOT, F("gone", "pdf")), S_PY,
          ROOT \o <<DOTDOT, DOTDOT, N("out"), F("s", "py")>>}

DirPaths == {ROOT, BASE, OUT, GONE}

Done(op, arg, r) ==
    /\ phase' = "done"
    /\ call' = [op |-> op, arg |-> arg]
    /\ res' = Outcome(r)
    /\ UNCHANGED <<fs, environ, loader, formats, concVars, srvVars>>

LoaderLoadStr ==
    /\ phase = "idle"
    /\ \E p \in FilePaths \cup DirPaths :
          Done("loader.load", [shape |-> "str", path |-> p],
               LoaderLoad([shape |-> "str", path |-> p]))

LoaderLoadList ==
    /\ phase = "idle"
    /\ \E ps \in SeqsUpTo(FilePaths, MaxListLen) :
          Done("loader.load", [shape |-> "list", paths |-> ps],
               LoaderLoad([shape |-> "list", paths |-> ps]))

LoaderLoadOther ==
    /\ phase = "idle"
    /\ Done("loader.load", [shape |-> "other"], LoaderLoad([shape |-> "other"]))

OrchLoadFile ==
    /\ phase = "idle"
    /\ \E p \in FilePaths \cup DirPaths :
          Done("secure.load_file", [shape |-> "str", path |-> p], SecureLoadFile(p))

OrchLoadFiles ==
    /\ phase = "idle"
    /\ \E ps \in SeqsUpTo(FilePaths, MaxListLen) :
          Done("secure.load_files", [shape |-> "list", paths |-> ps], LoadFiles(TRUE, ps))

OrchLoadDirectory ==
    /\ phase = "idle"
    /\ \E d \in DirPaths \cup {S_PY} :
          Done("secure.load_directory", [shape |-> "str", path |-> d],
               SecureLoadDirectory(d))

\* SecureDocumentLoaderOrchestrator.__init__: without an allowed_base the
\* default is os.getcwd(), in a module that does not import os
OrchInit ==
    /\ phase = "idle"
    /\ \E given \in BOOLEAN :
          Done("secure.__init__", [shape |-> "init", given |-> given],
               IF given THEN NoDocs ELSE R(<<>>, {}, {}, {}, "NameError"))

\* SecureDirectoryTraverser.traverse called on its own
SecureTraverseCall ==
    LET Traversed(t) ==
            [outcome |-> IF t.raised = "none" THEN "returned" ELSE "raised",
             files |-> t.files, listed |-> t.listed, validated |-> t.validated,
             raised |-> t.raised]
    IN  /\ phase = "idle"
        /\ \E d \in DirPaths :
              /\ call' = [op |-> "secure.traverse", arg |-> [shape |-> "str", path |-> d]]
              /\ res' = Traversed(SecureTraverse(d, AllowedBase))
        /\ phase' = "done"
        /\ UNCHANGED <<fs, environ, loader, formats, concVars, srvVars>>

BaseOrchLoadFile ==
    /\ phase = "idle"
    /\ \E p \in FilePaths \cup DirPaths :
          Done("base.load_file", [shape |-> "str", path |-> p], BaseLoadFile(p))

BaseOrchLoadFiles ==
    /\ phase = "idle"
    /\ \E ps \in SeqsUpTo(FilePaths, MaxListLen) :
          Done("base.load_files", [shape |-> "list", paths |-> ps], LoadFiles(FALSE, ps))

BaseOrchLoadDirectory ==
    /\ phase = "idle"
    /\ \E d \in DirPaths :
          Done("base.load_directory", [shape |-> "str", path |-> d], BaseLoadDirectory(d))

\* a second load_directory that goes on from the list the first one built
OrchLoadDirectoryAgain_accumulating ==
    LET Again(r) ==
            [outcome |-> IF r.raised = "none" THEN "returned" ELSE "raised",
             first |-> res.docs, docs |-> res.docs \o r.docs, raised |-> r.raised]
    IN  /\ phase = "done"
        /\ call.op \in {"secure.load_directory", "base.load_directory"}
        /\ phase' = "again"
        /\ res' = Again(IF call.op = "secure.load_directory"
                        THEN SecureLoadDirectory(call.arg.path)
                        ELSE BaseLoadDirectory(call.arg.path))
        /\ UNCHANGED <<fs, call, environ, loader, formats, concVars, srvVars>>

\* load_directory called a second time on the same orchestrator and the
\* same directory: it starts from all_docs = [] and from the filesystem,
\* the registry and the rate limiter as the first call left them
OrchLoadDirectoryAgain ==
    LET Again(r) ==
            [outcome |-> IF r.raised = "none" THEN "returned" ELSE "raised",
             first |-> res.docs, docs |-> r.docs, raised |-> r.raised]
    IN  /\ phase = "done"
        /\ call.op \in {"secure.load_directory", "base.load_directory"}
        /\ phase' = "again"
        /\ res' = Again(IF call.op = "secure.load_directory"
                        THEN SecureLoadDirectory(call.arg.path)
                        ELSE BaseLoadDirectory(call.arg.path))
        /\ UNCHANGED <<fs, call, environ, loader, formats, concVars, srvVars>>

\* document_loader_refactored.ExtendedDocumentLoader.load: the path is used
\* as given; a path that is neither a file nor a directory and an argument
\* that is neither a string nor a list raise ValueError
ExtendedLoaderLoad ==
    LET Load(arg) ==
            IF arg.shape = "list" THEN LoadFiles(FALSE, arg.paths)
            ELSE IF arg.shape # "str" THEN R(<<>>, {}, {}, {}, "ValueError")
            ELSE IF IsFile(arg.path) THEN BaseLoadFile(arg.path)
            ELSE IF IsDirectory(arg.path) THEN BaseLoadDirectory(arg.path)
            ELSE R(<<>>, {}, {}, {}, "ValueError")
        Called(arg) == Done("extended.load", arg, Load(arg))
    IN  /\ phase = "idle"
        /\ \/ \E p \in FilePaths \cup DirPaths : Called([shape |-> "str", path |-> p])
           \/ \E p \in FilePaths : Called([shape |-> "list", paths |-> <<p>>])
           \/ Called([shape |-> "list", paths |-> <<>>])
           \/ Called([shape |-> "other"])

\* document_loader.ExtendedDocumentLoader._is_safe_path: the path is
\* resolved and no part of the result may begin with '..'; an exception of
\* resolve() makes it False
is_safe_path(path) ==
    LET Safe(resolved) ==
            /\ resolved.ok
            /\ \A i \in 1..Len(resolved.path) :
                  ~(/\ Len(resolved.path[i]) >= 2
                    /\ resolved.path[i][1] = "."
                    /\ resolved.path[i][2] = ".")
    IN  Safe(Resolve(path))

\* document_loader.ExtendedDocumentLoader.load with a str path, the parent
\* class being the fallback whose load returns []: read_text decodes with
\* errors='ignore', the url is the absolute path as it was given
DocumentLoaderLoad ==
    LET EXTENDED_FORMATS == {"hs", "csv", "sh", "yaml", "tex"}
        supported(path) == Len(Ext(path)) = 1 /\ Ext(path)[1] \in EXTENDED_FORMATS
        Ignoring(bs) ==
            SelectSeq(Utf8From(bs, <<>>, TRUE).text, LAMBDA c : c # REPLACEMENT)
        Content(b) ==
            DecodeRead([ok |-> TRUE, bytes |-> Ignoring(b.bytes), err |-> "none"],
                       "latin-1").text
        Read(path, b) ==
            IF b.ok THEN R(<<[raw_content |-> Content(b), url |-> path]>>, {path}, {}, {}, "none")
            ELSE NoDocs
        Load(path) ==
            IF ~is_safe_path(path) THEN NoDocs
            ELSE IF ~(IsFile(path) /\ supported(path)) THEN NoDocs
            ELSE IF StSize(path) > 10 * MaxFileSize THEN NoDocs
            ELSE Read(path, ReadBytes(path))
    IN  /\ phase = "idle"
        /\ \E p \in {Append(ROOT, F("a", "hs")), Append(OUT, F("s", "hs")), GONE, ROOT,
                      A_PY, ROOT \o <<DOTDOT, DOTDOT, N("out"), F("s", "hs")>>,
                      ROOT \o <<DOTDOT, N("r"), F("a", "hs")>>} :
              Done("document.load", [shape |-> "str", path |-> p], Load(p))

\* the loader is built with allowed_base /base, or without one in an
\* environment where DOC_PATH is unset, names /base/r or names nothing
Init ==
    /\ fs \in FsTwoFiles \cup FsLinks \cup FsTrees \cup FsHidden \cup FsSameName
             \cup FsExtended
    /\ phase = "idle"
    /\ call = NoCall
    /\ res = NoRes
    /\ sem = MaxConcurrent
    /\ waitq = <<>>
    /\ tasks = <<>>
    /\ \/ /\ environ = [v \in {} |-> <<>>]
          /\ loader = LoaderInit(TRUE, BASE)
       \/ /\ fs \in FsLinks \cup FsHidden
          /\ environ \in {[v \in {} |-> <<>>], "DOC_PATH" :> ROOT, "DOC_PATH" :> GONE}
          /\ loader = LoaderInit(FALSE, BASE)
    /\ formats = InitialFormats
    /\ NoRequests

Next ==
    \/ LoaderLoadStr
    \/ LoaderLoadList
    \/ LoaderLoadOther
    \/ OrchLoadFile
    \/ OrchLoadFiles
    \/ OrchLoadDirectory
    \/ OrchInit
    \/ SecureTraverseCall
    \/ BaseOrchLoadFile
    \/ BaseOrchLoadFiles
    \/ BaseOrchLoadDirectory
    \/ ExtendedLoaderLoad
    \/ DocumentLoaderLoad
    \/ OrchLoadDirectoryAgain

Spec == Init /\ [][Next]_vars

(***************************************************************************)
(* validate_path on its own, over raw paths with ".." and symbolic links   *)
(***************************************************************************)
ValidatePathCall ==
    /\ phase = "idle"
    /\ \E p \in SeqsUpTo({N("base"), N("r"), N("out"), N("in"), F("lnk", "py"),
                             F("a", "py"), F("s", "py"), DOTDOT}, MaxRawLen),
          b \in {BASE, ROOT, OUT_IN} :
          /\ phase' = "done"
          /\ call' = [op |-> "validate_path", path |-> p, allowed |-> b]
          /\ res' = validate_path(p, b)
          /\ UNCHANGED <<fs, environ, loader, formats, concVars, srvVars>>

InitPath ==
    /\ fs \in FsLinks
    /\ phase = "idle"
    /\ call = NoCall
    /\ res = NoRes
    /\ sem = MaxConcurrent
    /\ waitq = <<>>
    /\ tasks = <<>>
    /\ environ = [v \in {} |-> <<>>]
    /\ loader = LoaderInit(TRUE, BASE)
    /\ formats = InitialFormats
    /\ NoRequests

NextPath == ValidatePathCall

SpecPath == InitPath /\ [][NextPath]_vars

(***************************************************************************)
(* The format registry, the loader factory and the helpers of utils.py,    *)
(* each called on its own.  An extension is a sequence of tokens, as a     *)
(* name is: ".MD" is <<".", "MD">>.  The text of a message is a phrase and *)
(* the paths written into it.                                              *)
(***************************************************************************)
\* utils.handle_exception; exc is the exception's class and str(exc)
handle_exception(exc, context) ==
    [ok |-> FALSE,
     error |-> [context |-> context, type |-> exc.type, message |-> exc.text]]

\* utils.validate_doc_path: (is_valid, doc_path, error_dict)
validate_doc_path(report_source) ==
    LET ValueError(phrase, paths) ==
            [type |-> "ValueError", text |-> [phrase |-> phrase, paths |-> paths]]
        Invalid(exc) ==
            [is_valid |-> FALSE, doc_path |-> None,
             error |-> handle_exception(exc, "DOC_PATH Validation")]
    IN  IF report_source \notin {"local", "hybrid"}
        THEN [is_valid |-> TRUE, doc_path |-> None, error |-> None]
        ELSE IF "DOC_PATH" \notin DOMAIN environ
        THEN Invalid(ValueError("DOC_PATH environment variable not set. Required for local/hybrid research.",
                                <<>>))
        ELSE IF Stat(environ["DOC_PATH"]).kind = "none"
        THEN Invalid(ValueError("DOC_PATH directory does not exist: ",
                                <<environ["DOC_PATH"]>>))
        ELSE [is_valid |-> TRUE, doc_path |-> environ["DOC_PATH"], error |-> None]

\* FileFormatRegistry.register: the key is extension.lower(), dots kept
register(extension, category, description) ==
    /\ phase = "idle"
    /\ formats' =
          [k \in DOMAIN formats \cup {LowerStrip(extension, FALSE)} |->
              IF k = LowerStrip(extension, FALSE)
              THEN [extension |-> k, category |-> category,
                    description |-> description, mime_type |-> None]
              ELSE formats[k]]
    /\ call' = [op |-> "register", extension |-> extension, category |-> category,
                description |-> description]
    /\ res' = [outcome |-> "returned", before |-> formats]
    /\ UNCHANGED <<fs, phase, environ, loader, concVars, srvVars>>

\* get_format (DocumentLoaderOrchestrator.get_format_info), get_category
\* and is_supported asked about one extension
Lookup ==
    /\ phase = "idle"
    /\ \E q \in {<<"md">>, <<"MD">>, <<".", "md">>, <<".", "MD">>, <<"zz">>, <<".", "zz">>,
                  <<"py">>, <<"nope">>, <<>>} :
          /\ call' = [op |-> "lookup", extension |-> q]
          /\ res' = [outcome |-> "returned", format |-> get_format(q),
                     category |-> get_category(q), supported |-> is_supported(q)]
    /\ phase' = "done"
    /\ UNCHANGED <<fs, environ, loader, formats, concVars, srvVars>>

\* LoaderFactory.create_loader asked for the strategy of one file name
CreateLoader ==
    /\ phase = "idle"
    /\ \E p \in {<<F("a", e)>> : e \in StandardExts \cup {"py", "PDF", "MD", "zz", "txt"}}
                \cup {<<N("a")>>, <<<<".", "md">>>>} :
          /\ call' = [op |-> "create_loader", path |-> p]
          /\ res' = [outcome |-> "returned", strategy |-> create_loader(p)]
    /\ phase' = "done"
    /\ UNCHANGED <<fs, environ, loader, formats, concVars, srvVars>>

ValidateDocPathCall ==
    /\ phase = "idle"
    /\ \E report_source \in {"web", "local", "hybrid"} :
          /\ call' = [op |-> "validate_doc_path", report_source |-> report_source]
          /\ res' = validate_doc_path(report_source)
    /\ phase' = "done"
    /\ UNCHANGED <<fs, environ, loader, formats, concVars, srvVars>>

\* a sanitizer that hands on the text of the exception
sanitize_error_message_str(error, context) ==
    IF context = "" THEN <<error.text.phrase>> ELSE <<error.text.phrase, ": ", context>>

\* security_utils.sanitize_error_message; error is the exception's class and
\* str(error), the result the pieces of the formatted string.  isinstance
\* follows the base classes of the built-in exceptions and of the
\* SecurityError family.
sanitize_error_message(error, context) ==
    LET safe_messages ==
            << <<"FileNotFoundError", "File not found">>,
               <<"PermissionError", "Permission denied">>,
               <<"IsADirectoryError", "Invalid file type">>,
               <<"PathTraversalError", "Invalid path">>,
               <<"FileSizeError", "File size limit exceeded">>,
               <<"UnicodeDecodeError", "File encoding error">>,
               <<"MemoryError", "Insufficient memory">>,
               <<"TimeoutError", "Operation timed out">> >>
        base == [c \in {"FileNotFoundError", "PermissionError", "IsADirectoryError",
                        "TimeoutError", "NotADirectoryError"} |-> "OSError"]
                @@ [c \in {"PathTraversalError", "FileSizeError"} |-> "SecurityError"]
                @@ [c \in {"UnicodeDecodeError", "UnicodeError"} |->
                        IF c = "UnicodeDecodeError" THEN "UnicodeError" ELSE "ValueError"]
                @@ [c \in {"OSError", "SecurityError", "ValueError", "MemoryError",
                           "KeyError"} |-> "Exception"]
        RECURSIVE isinstance(_, _)
        isinstance(cls, error_type) ==
            \/ cls = error_type
            \/ cls \in DOMAIN base /\ isinstance(base[cls], error_type)
        Hits == {i \in 1..Len(safe_messages) : isinstance(error.type, safe_messages[i][1])}
        First(S) == CHOOSE i \in S : \A j \in S : i <= j
        With(message) ==
            IF context # "" THEN <<message, ": ", context>> ELSE <<message>>
    IN  IF Hits # {} THEN With(safe_messages[First(Hits)][2])
        ELSE IF context = "" THEN <<"Operation failed">>
        ELSE <<"Operation failed", ": ", context>>

\* the texts of the exceptions sanitize_error_message is called with
ErrorTexts ==
    {[phrase |-> "", paths |-> <<>>],
     [phrase |-> "No such file or directory: ", paths |-> <<GONE>>],
     [phrase |-> "Path outside allowed directory: ", paths |-> <<S_PY>>]}

SanitizeCall ==
    /\ phase = "idle"
    /\ \E cls \in {"FileNotFoundError", "PermissionError", "IsADirectoryError",
                    "PathTraversalError", "FileSizeError", "UnicodeDecodeError",
                    "MemoryError", "TimeoutError", "NotADirectoryError", "SecurityError",
                    "ValueError", "KeyError", "OSError"},
          text \in ErrorTexts, context \in {"", "load_file"} :
          /\ call' = [op |-> "sanitize", error |-> [type |-> cls, text |-> text],
                      context |-> context]
          /\ res' = [outcome |-> "returned",
                     message |-> sanitize_error_message([type |-> cls, text |-> text], context)]
    /\ phase' = "done"
    /\ UNCHANGED <<fs, environ, loader, formats, concVars, srvVars>>

\* a traverser is constructed and asked about one directory name
ShouldSkipDirectoryCall ==
    /\ phase = "idle"
    /\ \E given \in BOOLEAN, skip_dirs \in {{}, {N("docs")}}, skip_hidden \in BOOLEAN,
          dirname \in {N("docs"), N("build"), <<".", "git">>, N("src")} :
          /\ call' = [op |-> "should_skip_directory", given |-> given,
                      skip_dirs |-> skip_dirs, skip_hidden |-> skip_hidden,
                      dirname |-> dirname]
          /\ res' = [outcome |-> "returned",
                     skip |-> ShouldSkipDirectory(
                                 DirectoryTraverser(given, skip_dirs, skip_hidden), dirname)]
    /\ phase' = "done"
    /\ UNCHANGED <<fs, environ, loader, formats, concVars, srvVars>>

InitUnits ==
    /\ fs \in FsHidden
    /\ phase = "idle"
    /\ call = NoCall
    /\ res = NoRes
    /\ sem = MaxConcurrent
    /\ waitq = <<>>
    /\ tasks = <<>>
    /\ environ \in {[v \in {} |-> <<>>], "DOC_PATH" :> ROOT, "DOC_PATH" :> GONE}
    /\ loader = LoaderInit(TRUE, BASE)
    /\ formats = InitialFormats
    /\ NoRequests

NextUnits ==
    \/ \E e \in {<<"zz">>, <<"MD">>, <<".", "md">>}, c \in {"standard", "data", "unknown"},
          d \in {"", "x"} : register(e, c, d)
    \/ Lookup
    \/ CreateLoader
    \/ ValidateDocPathCall
    \/ SanitizeCall
    \/ ShouldSkipDirectoryCall

SpecUnits == InitUnits /\ [][NextUnits]_vars

(***************************************************************************)
(* The MCP server (server.py) and its helpers in utils.py.  A query or a   *)
(* topic is a sequence of tokens: words, " " for white space and the       *)
(* prefixes "[local]" and "[hybrid]".  A text the server formats is the    *)
(* record of its parts.  A handler runs without interruption up to its     *)
(* await of the research engine and again from there to its return;        *)
(* reqs[i].pc tells where request i stands.  The engine (gpt_researcher)   *)
(* is not part of the repository: each of its calls returns or raises.     *)
(***************************************************************************)
MaxRequests == 3
\* requests the server receives

\* str.strip()
RECURSIVE strip(_)
strip(s) ==
    IF s # <<>> /\ Head(s) = " " THEN strip(Tail(s))
    ELSE IF s # <<>> /\ Last(s) = " " THEN strip(Front(s))
    ELSE s

\* the queries of the tools and the topics of the resource
Queries == {<<"q">>, <<"q", " ">>}
Topics == Queries \cup {<<"[local]", "q">>, <<"[hybrid]", " ", "q">>}

\* what a run of the engine gives: the call that raises, if any
\* (conduct_research, or one of get_research_context, get_research_sources
\* and get_source_urls after it), and the context, sources and source urls
\* the researcher holds afterwards
EngineOutcomes ==
    [raises : {"none", "conduct_research", "getter"},
     context : {"c1", "c2"}, sources : {<<"s">>}, source_urls : {<<"u">>}]

EngineError == [type |-> "Exception", text |-> [phrase |-> "engine", paths |-> <<>>]]

Text(header, topic, context, sources) ==
    [header |-> header, topic |-> topic, context |-> context, sources |-> sources]

\* utils.format_context_with_sources
format_context_with_sources(topic, context, sources) == Text("", topic, context, sources)

\* utils.store_research_results: the key is f"{report_source}:{query.strip()}"
store_research_results(query, context, sources, source_urls, report_source) ==
    research_store' =
        (<<report_source, strip(query)>> :>
            [context |-> format_context_with_sources(strip(query), context, sources),
             sources |-> sources, source_urls |-> source_urls])
        @@ research_store

\* utils.get_researcher_by_id: (success, researcher, error)
get_researcher_by_id(table, research_id) ==
    IF research_id \in DOMAIN table
    THEN [success |-> TRUE, researcher |-> table[research_id], error |-> None]
    ELSE [success |-> FALSE, researcher |-> None,
          error |-> [ok |-> FALSE,
                     error |-> [context |-> "Lookup", type |-> "NotFound",
                                message |-> [phrase |-> "Researcher with ID not found",
                                             paths |-> <<>>]]]]

\* a request: the handler, the argument it was called with, the query and
\* the mode it works on, the id uuid4 gave it (0: none), where it stands
\* and what it returned
Req(op, arg, query, report_source, id, pc, response) ==
    [op |-> op, arg |-> arg, query |-> query, report_source |-> report_source,
     id |-> id, pc |-> pc, response |-> response]

\* the request returns without having awaited the engine
Returned(op, arg, query, report_source, response) ==
    /\ reqs' = Append(reqs, Req(op, arg, query, report_source, 0, "done", response))
    /\ UNCHANGED <<runs, uuids>>

\* the request constructs GPTResearcher(query, report_source) and awaits
\* its engine call
Awaiting(op, arg, query, report_source, id) ==
    /\ reqs' = Append(reqs, Req(op, arg, query, report_source, id, "awaiting", None))
    /\ runs' = Append(runs, [by |-> op, report_source |-> report_source, query |-> query])

\* the awaited call has returned or raised and request i returns
Respond(i, response) ==
    reqs' = [reqs EXCEPT ![i].pc = "done", ![i].response = response]

\* deep_research and quick_search up to the await: report_source and
\* DOC_PATH are validated, the id is drawn
ToolStart(op, context, query, report_source) ==
    LET Checked(v) ==
            IF ~v.is_valid
            THEN Returned(op, query, query, report_source, v.error)
            ELSE /\ uuids' = uuids + 1
                 /\ Awaiting(op, query, query, report_source, uuids + 1)
    IN  /\ Len(reqs) < MaxRequests
        /\ IF report_source \notin {"web", "local", "hybrid"}
           THEN Returned(op, query, query, report_source,
                         handle_exception([type |-> "ValueError",
                                           text |-> [phrase |-> "Invalid report_source",
                                                     paths |-> <<>>]], context))
           ELSE Checked(validate_doc_path(report_source))
        /\ UNCHANGED <<researchers, research_store, loadVars, concVars>>

\* server.deep_research, the call
deep_research(query, report_source) == ToolStart("deep_research", "Research", query, report_source)

\* server.deep_research from the return of conduct_research on
deep_research_resumed(i, e) ==
    LET r == reqs[i]
        researcher == [query |-> r.query, report_source |-> r.report_source,
                       context |-> e.context, sources |-> e.sources]
    IN  /\ r.op = "deep_research"
        /\ r.pc = "awaiting"
        /\ IF e.raises = "conduct_research"
           THEN /\ Respond(i, handle_exception(EngineError, "Research"))
                /\ UNCHANGED <<researchers, research_store>>
           ELSE /\ researchers' = (r.id :> researcher) @@ researchers
                /\ IF e.raises # "none"
                   THEN /\ Respond(i, handle_exception(EngineError, "Research"))
                        /\ UNCHANGED research_store
                   ELSE /\ store_research_results(r.query, e.context, e.sources,
                                                  e.source_urls, r.report_source)
                        /\ Respond(i, [ok |-> TRUE,
                                       data |-> [research_id |-> r.id, query |-> r.query,
                                                 report_source |-> r.report_source,
                                                 source_count |-> Len(e.sources),
                                                 context |-> e.context,
                                                 sources |-> e.sources,
                                                 source_urls |-> e.source_urls]])
        /\ UNCHANGED <<runs, uuids, loadVars, concVars>>

\* server.quick_search, the call
quick_search(query, report_source) == ToolStart("quick_search", "Quick search", query, report_source)

\* server.quick_search from the return of researcher.quick_search on
quick_search_resumed(i, raises) ==
    LET r == reqs[i]
        researcher == [query |-> r.query, report_source |-> r.report_source,
                       context |-> "", sources |-> <<>>]
    IN  /\ r.op = "quick_search"
        /\ r.pc = "awaiting"
        /\ IF raises
           THEN /\ Respond(i, handle_exception(EngineError, "Quick search"))
                /\ UNCHANGED researchers
           ELSE /\ researchers' = (r.id :> researcher) @@ researchers
                /\ Respond(i, [ok |-> TRUE,
                               data |-> [search_id |-> r.id, query |-> r.query,
                                         report_source |-> r.report_source]])
        /\ UNCHANGED <<research_store, runs, uuids, loadVars, concVars>>

\* server.research_resource, the call: the mode is parsed from the topic,
\* a cached context is returned, otherwise the research is started
research_resource(topic) ==
    LET Cached(report_source, actual_topic) ==
            IF <<report_source, actual_topic>> \in DOMAIN research_store
            THEN Returned("research_resource", topic, actual_topic, report_source,
                          research_store[<<report_source, actual_topic>>].context)
            ELSE IF ~validate_doc_path(report_source).is_valid
            THEN Returned("research_resource", topic, actual_topic, report_source,
                          Text("Error", actual_topic, "DOC_PATH not configured properly", <<>>))
            ELSE /\ Awaiting("research_resource", topic, actual_topic, report_source, 0)
                 /\ UNCHANGED uuids
    IN  /\ Len(reqs) < MaxRequests
        /\ IF topic # <<>> /\ Head(topic) = "[local]" THEN Cached("local", strip(Tail(topic)))
           ELSE IF topic # <<>> /\ Head(topic) = "[hybrid]" THEN Cached("hybrid", strip(Tail(topic)))
           ELSE Cached("web", topic)
        /\ UNCHANGED <<researchers, research_store, loadVars, concVars>>

\* server.research_resource from the return of conduct_research on
research_resource_resumed(i, e) ==
    LET r == reqs[i]
        Upper(report_source) ==
            IF report_source = "web" THEN "WEB"
            ELSE IF report_source = "local" THEN "LOCAL" ELSE "HYBRID"
        formatted_context ==
            [format_context_with_sources(r.query, e.context, e.sources)
                EXCEPT !.header = Upper(r.report_source)]
    IN  /\ r.op = "research_resource"
        /\ r.pc = "awaiting"
        /\ IF e.raises # "none"
           THEN /\ Respond(i, Text("Error", r.query, "engine", <<>>))
                /\ UNCHANGED research_store
           ELSE /\ research_store' =
                      (<<r.report_source, r.query>> :>
                          [context |-> formatted_context, sources |-> e.sources,
                           source_urls |-> e.source_urls])
                      @@ research_store
                /\ Respond(i, formatted_context)
        /\ UNCHANGED <<researchers, runs, uuids, loadVars, concVars>>

\* server.write_report, the call: the researcher is looked up
write_report(research_id) ==
    LET Found(g) ==
            IF ~g.success THEN Returned("write_report", research_id, <<>>, "", g.error)
            ELSE /\ reqs' = Append(reqs, Req("write_report", research_id, <<>>, "", 0,
                                             "awaiting", None))
                 /\ UNCHANGED <<runs, uuids>>
    IN  /\ Len(reqs) < MaxRequests
        /\ Found(get_researcher_by_id(researchers, research_id))
        /\ UNCHANGED <<researchers, research_store, loadVars, concVars>>

\* server.write_report from the return of researcher.write_report on
write_report_resumed(i, raises) ==
    /\ reqs[i].op = "write_report"
    /\ reqs[i].pc = "awaiting"
    /\ IF raises THEN Respond(i, handle_exception(EngineError, "Report generation"))
       ELSE Respond(i, [ok |-> TRUE, data |-> [report |-> "report"]])
    /\ UNCHANGED <<researchers, research_store, runs, uuids, loadVars, concVars>>

\* server.get_research_sources
get_research_sources(research_id) ==
    LET Found(g) ==
            Returned("get_research_sources", research_id, <<>>, "",
                     IF ~g.success THEN g.error
                     ELSE [ok |-> TRUE, data |-> [sources |-> g.researcher.sources]])
    IN  /\ Len(reqs) < MaxRequests
        /\ Found(get_researcher_by_id(researchers, research_id))
        /\ UNCHANGED <<researchers, research_store, loadVars, concVars>>

\* server.get_research_context
get_research_context(research_id) ==
    LET Found(g) ==
            Returned("get_research_context", research_id, <<>>, "",
                     IF ~g.success THEN g.error
                     ELSE [ok |-> TRUE, data |-> [context |-> g.researcher.context]])
    IN  /\ Len(reqs) < MaxRequests
        /\ Found(get_researcher_by_id(researchers, research_id))
        /\ UNCHANGED <<researchers, research_store, loadVars, concVars>>

InitServer ==
    /\ fs \in FsHidden
    /\ phase = "idle"
    /\ call = NoCall
    /\ res = NoRes
    /\ sem = MaxConcurrent
    /\ waitq = <<>>
    /\ tasks = <<>>
    /\ environ \in {[v \in {} |-> <<>>], "DOC_PATH" :> ROOT, "DOC_PATH" :> GONE}
    /\ loader = LoaderInit(TRUE, BASE)
    /\ formats = InitialFormats
    /\ NoRequests

NextServer ==
    \/ \E query \in Queries, report_source \in {"web", "local", "hybrid", "pdf"} :
          deep_research(query, report_source)
    \/ \E i \in DOMAIN reqs, e \in EngineOutcomes : deep_research_resumed(i, e)
    \/ \E query \in Queries, report_source \in {"web", "local", "hybrid", "pdf"} :
          quick_search(query, report_source)
    \/ \E i \in DOMAIN reqs, raises \in BOOLEAN : quick_search_resumed(i, raises)
    \/ \E topic \in Topics : research_resource(topic)
    \/ \E i \in DOMAIN reqs, e \in EngineOutcomes : research_resource_resumed(i, e)
    \/ \E research_id \in 1..MaxRequests : write_report(research_id)
    \/ \E i \in DOMAIN reqs, raises \in BOOLEAN : write_report_resumed(i, raises)
    \/ \E research_id \in 1..MaxRequests : get_research_sources(research_id)
    \/ \E research_id \in 1..MaxRequests : get_research_context(research_id)

SpecServer == InitServer /\ [][NextServer]_vars

(***************************************************************************)
(* Properties of validate_path                                             *)
(***************************************************************************)
\* no "." or ".." segment and no symbolic link on the way
Canonical(q) ==
    \A k \in 1..Len(q) : q[k] # DOT /\ q[k] # DOTDOT /\ ~IsLink(SubSeq(q, 1, k))

\* the resolved path is the resolved base or below it
Within(p, base) ==
    /\ Resolve(p).ok
    /\ Resolve(base).ok
    /\ IsPrefix(Resolve(base).path, Resolve(p).path)

\* C2: validate_path(p, allowedBase) returns the canonical form of p when
\* the resolved p is the resolved base or a descendant of it, and raises
\* PathTraversalError for every other p; the raw strings do not decide.
C2_ContainmentOnResolvedPaths ==
    (phase = "done" /\ call.op = "validate_path") =>
        IF Within(call.path, call.allowed)
        THEN /\ res.ok
             /\ res.path = Resolve(call.path).path
             /\ Canonical(res.path)
             /\ IsPrefix(Resolve(call.allowed).path, res.path)
        ELSE ~res.ok /\ res.err = "PathTraversalError"

\* a raw path that textually starts with the allowed base is rejected
C2_RawPrefixRejected ==
    /\ phase = "done"
    /\ call.op = "validate_path"
    /\ IsPrefix(call.allowed, call.path)
    /\ ~Within(call.path, call.allowed)
    /\ ~res.ok

(***************************************************************************)
(* Properties of the loading calls                                         *)
(***************************************************************************)
InsideBase(p) == Within(p, AllowedBase)

\* the paths a call names
CallPaths == IF call.arg.shape = "list" THEN Range(call.arg.paths) ELSE {call.arg.path}

\* the call's result holds a document for the file p
HasDocFor(p) == \E j \in 1..Len(res.docs) : res.docs[j].url = get_safe_filename(p)

\* C3: every document of the secure loader comes from a validated path
\* inside the allowed base, no content is read through a path that was not
\* validated, and a list entry outside the base is skipped while the other
\* entries are loaded.
C3_OnlyValidatedPathsAreRead ==
    (/\ phase = "done"
     /\ call.op \in {"loader.load", "secure.load_file", "secure.load_files",
                     "secure.load_directory"}) =>
        /\ res.reads \subseteq res.validated
        /\ \A p \in res.validated : InsideBase(p) /\ Canonical(p)
        /\ \A j \in 1..Len(res.docs) :
              \E p \in res.validated : res.docs[j].url = get_safe_filename(p)
        /\ (call.op = "loader.load" /\ call.arg.shape = "list") =>
              LET inside == SelectSeq(call.arg.paths, InsideBase)
                  canon == [i \in 1..Len(inside) |-> Resolve(inside[i]).path]
              IN  res.docs = LoadFiles(TRUE, canon).docs

\* a list with an entry outside the base and an entry that is loaded
C3_OutsideEntrySkipped ==
    /\ phase = "done"
    /\ call.op = "loader.load"
    /\ call.arg.shape = "list"
    /\ \E i \in 1..Len(call.arg.paths) : ~InsideBase(call.arg.paths[i])
    /\ res.reads # {}
    /\ Len(res.docs) = 1

\* the documents a batch over `paths` owes: none for a file that cannot be
\* read (missing, not a regular file, access denied), for every other file
\* what loading it alone returns
RECURSIVE OwedBy(_, _)
OwedBy(secure, paths) ==
    IF paths = <<>> THEN <<>>
    ELSE (IF ~ReadBytes(Head(paths)).ok THEN <<>> ELSE LoadFileOf(secure, Head(paths)).docs)
         \o OwedBy(secure, Tail(paths))

\* C1: a batch call returns a list; a file that fails contributes no
\* document and every sibling contributes what it contributes alone.
C1_FailingFileContributesNothing ==
    /\ (phase = "done" /\ call.op \in {"secure.load_files", "base.load_files"}) =>
          /\ res.outcome = "returned"
          /\ res.docs = OwedBy(call.op = "secure.load_files", call.arg.paths)
    /\ (phase = "done" /\ call.op = "base.load_directory") =>
          /\ res.outcome = "returned"
          /\ res.docs = OwedBy(FALSE, traverse(call.arg.path).files)
    /\ (/\ phase = "done" /\ call.op = "secure.load_directory"
        /\ InsideBase(call.arg.path) /\ IsDirectory(call.arg.path)
        /\ validate_directory_traversal(call.arg.path).err = "none") =>
          /\ res.outcome = "returned"
          /\ res.docs = OwedBy(TRUE, traverse(call.arg.path).files)

\* the directories the walk lists when skipped directories are pruned stay
\* within the limits
PrunedTreeWithinLimits(root) ==
    ValidateVisits(root, Walk(root, TRUE), 1, 0).err = "none"

\* C4: loadDirectory never lists a directory below the root that is in the
\* skip set or dot-prefixed, and what a skipped directory holds never makes
\* the load fail.
C4_SkippedDirectoriesUntouched ==
    (phase = "done" /\ call.op \in {"secure.load_directory", "base.load_directory"}) =>
        /\ \A d \in res.listed :
              \A k \in (Len(call.arg.path) + 1)..Len(d) : ~should_skip_directory(d[k])
        /\ PrunedTreeWithinLimits(call.arg.path) => res.caught # "SecurityError"

\* a regular file under root that loadDirectory owes a document: readable,
\* not hidden, not a backup, reached through directories that are readable
\* and not skipped
Eligible(root, p) ==
    /\ p \in DOMAIN fs /\ fs[p].kind = "file" /\ fs[p].readable
    /\ Len(p) > Len(root) /\ IsPrefix(root, p)
    /\ ~should_skip_file(Last(p))
    /\ \A k \in (Len(root) + 1)..(Len(p) - 1) :
          ~should_skip_directory(p[k]) /\ fs[SubSeq(p, 1, k)].readable

\* C5: loadDirectory(root) returns exactly one document for each regular
\* file under root that is neither hidden, a backup nor below a skipped
\* directory, and nothing of a file below a skipped directory.
C5_OneDocumentPerEligibleFile ==
    (/\ phase = "done"
     /\ call.op \in {"secure.load_directory", "base.load_directory"}
     /\ IsDirectory(call.arg.path) /\ InsideBase(call.arg.path)
     /\ \A p \in DOMAIN fs : fs[p].kind # "link"
     /\ \A p \in DOMAIN fs : fs[p].kind = "file" => Len(fs[p].content) <= MaxFileSize)
    => /\ Len(res.docs) = Cardinality({p \in DOMAIN fs : Eligible(call.arg.path, p)})
       /\ \A p \in DOMAIN fs : Eligible(call.arg.path, p) => HasDocFor(p)
       /\ \A j \in 1..Len(res.docs) : res.docs[j].raw_content # SECRET

\* C6: a security or resource-limit error against the root of a load call
\* reaches the caller as a failed call, not as an empty list.
C6_RootErrorPropagates ==
    (/\ phase = "done"
     /\ call.op \in {"loader.load", "secure.load_file", "secure.load_directory"}
     /\ call.arg.shape = "str"
     /\ \/ ~InsideBase(call.arg.path)
        \/ /\ call.op # "secure.load_file"
           /\ IsDirectory(call.arg.path)
           /\ ~PrunedTreeWithinLimits(Resolve(call.arg.path).path)
        \/ /\ call.op # "secure.load_directory"
           /\ IsFile(call.arg.path)
           /\ StSize(call.arg.path) > MaxFileSize)
    => res.outcome = "raised"

\* a regular file inside the base that can be read
Loadable(p) == InsideBase(p) /\ IsFile(p) /\ Stat(p).readable

\* C8: a file of exactly the per-file limit is loaded; a file one byte
\* larger fails with FileSizeError and contributes no document.
C8_SizeBoundary ==
    (phase = "done" /\ call.op \in {"secure.load_file", "secure.load_files"}) =>
        \A p \in CallPaths :
            Loadable(p) =>
                /\ (StSize(p) = MaxFileSize /\ Decode(Stat(p).content, "utf-8").ok)
                       => HasDocFor(p)
                /\ StSize(p) = MaxFileSize + 1 => ~HasDocFor(p)
                /\ (StSize(p) = MaxFileSize + 1 /\ call.op = "secure.load_file")
                       => res.caught = "FileSizeError"

\* C9: whichever strategy loads it, a file above the per-file limit yields
\* no document and none of its bytes are read.
C9_OversizedNeverRead ==
    (phase = "done" /\ call.op \in {"secure.load_file", "secure.load_files"}) =>
        \A p \in CallPaths :
            (Loadable(p) /\ StSize(p) > MaxFileSize) =>
                ~HasDocFor(p) /\ Resolve(p).path \notin res.reads

\* C10: a readable file that is not valid UTF-8 yields exactly one document
\* with replacement characters, marked as read by the lossy fallback.
C10_InvalidUtf8TakesFallback ==
    (/\ phase = "done"
     /\ call.op \in {"secure.load_file", "base.load_file"}
     /\ Loadable(call.arg.path)
     /\ StSize(call.arg.path) <= MaxFileSize
     /\ ~Decode(Stat(call.arg.path).content, "utf-8").ok)
    => /\ res.outcome = "returned"
       /\ Len(res.docs) = 1
       /\ REPLACEMENT \in Range(res.docs[1].raw_content)
       /\ "encoding" \in DOMAIN res.docs[1].metadata
       /\ res.docs[1].metadata.encoding = "binary_fallback"

\* C11: a file of valid UTF-8 content that is read as text (every format but
\* the binary ones, md included) loads as exactly one document whose
\* raw_content is the content written and whose metadata records utf-8.
C11_Utf8RoundTrip ==
    (/\ phase = "done"
     /\ call.op \in {"secure.load_file", "base.load_file"}
     /\ Loadable(call.arg.path)
     /\ StSize(call.arg.path) <= MaxFileSize
     /\ Decode(Stat(call.arg.path).content, "utf-8").ok
     /\ Ext(call.arg.path) \notin {<<e>> : e \in {"pdf", "doc", "docx", "pptx", "xls", "xlsx"}})
    => /\ Len(res.docs) = 1
       /\ res.docs[1].raw_content = Decode(Stat(call.arg.path).content, "utf-8").text
       /\ "encoding" \in DOMAIN res.docs[1].metadata
       /\ res.docs[1].metadata.encoding = "utf-8"

\* C12: with the registry as initialised, create_loader picks the
\* rich-document strategy exactly for the binary formats that need an
\* extractor (PDF, Word, spreadsheet, presentation) and the text strategy
\* for every other extension, registered or not.
C12_RichStrategyOnlyForBinaryFormats ==
    (phase = "done" /\ call.op = "create_loader" /\ formats = InitialFormats) =>
        (res.strategy = "standard"
            <=> Ext(call.path) \in {<<e>> : e \in {"pdf", "doc", "docx", "pptx", "xls", "xlsx"}})

\* C17: after register(e, c, d) a lookup of e in any letter case, with or
\* without a leading dot, returns the descriptor (c, d), and the
\* descriptors of all other keys are as they were.
C17_LastRegistrationWins ==
    (call.op = "register") =>
        LET key == LowerStrip(call.extension, TRUE)
            spellings == {key, <<".">> \o key, call.extension}
        IN  /\ \A q \in spellings :
                  /\ get_format(q) # None
                  /\ get_format(q).category = call.category
                  /\ get_format(q).description = call.description
            /\ \A k \in DOMAIN res.before \ {key} :
                  k \in DOMAIN formats /\ formats[k] = res.before[k]
            /\ DOMAIN formats \subseteq DOMAIN res.before \cup {key}

\* C18: for every registry state and query, get_category answers unknown
\* exactly when is_supported is false, and exactly then get_format has
\* nothing to return.
C18_LookupsAgree ==
    (phase = "done" /\ call.op = "lookup") =>
        /\ res.outcome = "returned"
        /\ (res.category = "unknown") <=> ~res.supported
        /\ (res.format = None) <=> ~res.supported

\* C20: a failure handed to the facade's caller has a context label and a
\* message that holds no filesystem path.
C20_FailureMessageHoldsNoPath ==
    (phase = "done" /\ call.op = "validate_doc_path" /\ ~res.is_valid) =>
        /\ res.error.ok = FALSE
        /\ "context" \in DOMAIN res.error.error
        /\ res.error.error.message.paths = <<>>

\* C13: the secure traversal raises a resource-limit error, and returns no
\* file list, when a directory it can reach holds more files than
\* MaxFilesPerDirectory, lies deeper than MaxDirectoryDepth below the root,
\* or the files seen weigh more than MaxTotalSize; a tree at or below every
\* limit is traversed and all its files that are not skipped are returned.
C13_TraversalFailsAboveLimits ==
    (/\ phase = "done" /\ call.op = "secure.traverse"
     /\ InsideBase(call.arg.path) /\ IsDirectory(call.arg.path)) =>
        LET root == Resolve(call.arg.path).path
            Reached(d, skipping) ==
                /\ IsPrefix(root, d)
                /\ \A k \in Len(root)..Len(d) :
                      /\ fs[SubSeq(d, 1, k)].kind = "dir" /\ fs[SubSeq(d, 1, k)].readable
                      /\ (skipping /\ k > Len(root)) => ~should_skip_directory(d[k])
            FilesIn(d) == {p \in DOMAIN fs : Len(p) = Len(d) + 1 /\ Front(p) = d
                                              /\ ~IsDirectory(p)}
            Seen == UNION {FilesIn(d) : d \in {d \in DOMAIN fs : Reached(d, FALSE)}}
            Weight[S \in SUBSET Seen] ==
                IF S = {} THEN 0
                ELSE LET p == CHOOSE q \in S : TRUE
                     IN  (IF IsFile(p) THEN StSize(p) ELSE 0) + Weight[S \ {p}]
            Over ==
                \/ \E d \in DOMAIN fs :
                      /\ Reached(d, FALSE)
                      /\ \/ Len(d) - Len(root) > MaxDirectoryDepth
                         \/ Cardinality(FilesIn(d)) > MaxFilesPerDirectory
                \/ Weight[Seen] > MaxTotalSize
        IN  IF Over
            THEN res.outcome = "raised" /\ res.raised = "SecurityError" /\ res.files = <<>>
            ELSE /\ res.outcome = "returned"
                 /\ Len(res.files) = Cardinality(Range(res.files))
                 /\ Range(res.files) =
                       UNION {{p \in FilesIn(d) : ~should_skip_file(Last(p))} :
                                 d \in {d \in DOMAIN fs : Reached(d, TRUE)}}

\* a tree with a directory at the depth limit holding as many files as the
\* limit allows is traversed, and a tree above a limit is refused
C13_TreeAtLimitsTraversed ==
    /\ phase = "done" /\ call.op = "secure.traverse"
    /\ res.outcome = "returned"
    /\ \E d \in res.listed :
          /\ Len(d) - Len(Resolve(call.arg.path).path) = MaxDirectoryDepth
          /\ Cardinality({i \in 1..Len(res.files) : Front(res.files[i]) = d})
                = MaxFilesPerDirectory

\* C14: whatever the format, nothing the secure loader hands back holds a
\* directory of the path: the call raises nothing, and in every document
\* the url is a sanitized file name and the source recorded in the metadata
\* is a file name without directories.
C14_NoDirectoryInOutput ==
    (/\ phase = "done"
     /\ call.op \in {"loader.load", "secure.load_file", "secure.load_files",
                     "secure.load_directory"}) =>
        /\ res.outcome = "returned"
        /\ \A j \in 1..Len(res.docs) :
              /\ res.docs[j].url = get_safe_filename(<<res.docs[j].url>>)
              /\ "source" \in DOMAIN res.docs[j].metadata
                     => Len(res.docs[j].metadata.source) = 1

\* C15: without an allowed base the secure orchestrator can be constructed,
\* and the loader built without one loads a readable file wherever it lies,
\* with no containment check.
C15_NoBaseNoContainmentCheck ==
    /\ (phase = "done" /\ call.op = "secure.__init__") => res.outcome = "returned"
    /\ (/\ phase = "done" /\ call.op = "loader.load" /\ call.arg.shape = "str"
        /\ ~loader.given
        /\ IsFile(call.arg.path) /\ Stat(call.arg.path).readable
        /\ StSize(call.arg.path) <= MaxFileSize)
       => /\ res.outcome = "returned"
          /\ Len(res.docs) = 1
          /\ HasDocFor(Resolve(call.arg.path).path)

\* C16: load raises exactly when its argument is neither a path nor a list
\* of paths, or when the single path it is given does not exist; in every
\* other case it returns a list.
C16_RaisesOnlyForMalformedOrMissingRoot ==
    (phase = "done" /\ call.op \in {"loader.load", "extended.load"}) =>
        (res.outcome = "raised"
            <=> \/ call.arg.shape \notin {"str", "list"}
                \/ call.arg.shape = "str" /\ Stat(call.arg.path).kind = "none")

C22_NoDocumentWithoutFile ==
    (/\ phase = "done"
     /\ call.op \in {"secure.load_file", "secure.load_files",
                     "base.load_file", "base.load_files"}
     /\ \A p \in CallPaths : ~IsFile(p)) =>
        res.docs = <<>>

\* C23: the message sanitize_error_message returns is one of the fixed
\* phrases, followed by ': ' and the context when a context is given, and
\* every exception of the same class with another text gives the same
\* message.
C23_SanitizedMessageIgnoresText ==
    (phase = "done" /\ call.op = "sanitize") =>
        /\ res.message[1] \in
              {"File not found", "Permission denied", "Invalid file type", "Invalid path",
               "File size limit exceeded", "File encoding error", "Insufficient memory",
               "Operation timed out", "Operation failed"}
        /\ res.message = IF call.context = "" THEN <<res.message[1]>>
                         ELSE <<res.message[1], ": ", call.context>>
        /\ \A text \in ErrorTexts :
              sanitize_error_message([type |-> call.error.type, text |-> text],
                                     call.context) = res.message

\* an exception whose text names a path has been sanitized with a context
C23_PathTextSanitized ==
    /\ phase = "done"
    /\ call.op = "sanitize"
    /\ call.error.text.paths # <<>>
    /\ call.context # ""
    /\ res.message[1] = "Invalid path"

\* the request the server has just received
Arrived == Len(reqs') = Len(reqs) + 1

\* the deep_research requests that have returned a success response
Researched ==
    {j \in DOMAIN reqs : /\ reqs[j].op = "deep_research"
                         /\ reqs[j].pc = "done"
                         /\ reqs[j].response.ok}

\* C24: once deep_research(query, report_source) has succeeded, a
\* research_resource request for the same topic in the same mode (the query
\* itself for web, the query behind the mode's prefix otherwise) returns the
\* stored context and does not run the engine.
C24_DeepResearchResultIsServed ==
    [][(Arrived /\ Last(reqs').op = "research_resource") =>
          \A j \in Researched :
              (/\ Last(reqs').report_source = reqs[j].report_source
               /\ Last(reqs').arg \in
                     IF reqs[j].report_source = "web" THEN {reqs[j].arg}
                     ELSE IF reqs[j].report_source = "local"
                     THEN {<<"[local]">> \o reqs[j].arg, <<"[local]", " ">> \o reqs[j].arg}
                     ELSE {<<"[hybrid]">> \o reqs[j].arg, <<"[hybrid]", " ">> \o reqs[j].arg}) =>
                  /\ Last(reqs').pc = "done"
                  /\ Last(reqs').response =
                        research_store[<<reqs[j].report_source, strip(reqs[j].arg)>>].context
                  /\ runs' = runs]_vars

\* research_resource has started at most one engine run for a mode and a
\* topic
OneRunPerTopic ==
    \A a, b \in DOMAIN runs :
        (/\ runs[a].by = "research_resource"
         /\ runs[b] = runs[a]) => a = b

\* the research_resource requests for one mode and topic that have
\* returned a context
Served(report_source, topic) ==
    {j \in DOMAIN reqs : /\ reqs[j].op = "research_resource"
                         /\ reqs[j].pc = "done"
                         /\ reqs[j].report_source = report_source
                         /\ reqs[j].query = topic
                         /\ reqs[j].response.header # "Error"}

\* C25: research_resource runs the engine at most once for a mode and a
\* topic, and a request that returns a context returns the context every
\* earlier request for the same mode and topic returned.
C25_OneRunAndOneContextPerTopic ==
    [][/\ OneRunPerTopic'
       /\ \A i \in DOMAIN reqs' :
             (/\ reqs'[i].op = "research_resource"
              /\ reqs'[i].pc = "done"
              /\ reqs'[i].response.header # "Error"
              /\ (i \in DOMAIN reqs => reqs[i].pc = "awaiting")) =>
                 \A j \in Served(reqs'[i].report_source, reqs'[i].query) :
                     reqs[j].response = reqs'[i].response]_vars

\* C26: a step in which a deep_research or quick_search request returns an
\* error response leaves the researcher table and the research cache as
\* they were.
C26_ErrorResponseChangesNothing ==
    [][\A i \in DOMAIN reqs' :
          (/\ reqs'[i].op \in {"deep_research", "quick_search"}
           /\ reqs'[i].pc = "done"
           /\ ~reqs'[i].response.ok
           /\ (i \in DOMAIN reqs => reqs[i].pc = "awaiting")) =>
              /\ researchers' = researchers
              /\ research_store' = research_store]_vars

\* C27: write_report, get_research_sources and get_research_context find a
\* researcher exactly for the ids that completed deep_research calls have
\* returned, and a request that finds none changes no state.
C27_FoundExactlyForReturnedIds ==
    [][(/\ Arrived
        /\ Last(reqs').op \in {"write_report", "get_research_sources",
                               "get_research_context"}) =>
          LET found == Last(reqs').pc = "awaiting" \/ Last(reqs').response.ok
          IN  /\ found <=> Last(reqs').arg \in {reqs[j].id : j \in Researched}
              /\ ~found => /\ researchers' = researchers
                           /\ research_store' = research_store]_vars

\* C29: a traverser constructed with an explicit skip_dirs set skips a
\* directory exactly when the set names it or, skip_hidden being true, its
\* name begins with a dot.
C29_ExplicitSkipDirsAreUsed ==
    (phase = "done" /\ call.op = "should_skip_directory" /\ call.given) =>
        (res.skip <=> \/ call.dirname \in call.skip_dirs
                      \/ call.skip_hidden /\ call.dirname[1] = ".")

\* C28: in the result of one load_directory or load_files call made with
\* different files, no two documents carry the same url.  The files of a
\* directory without symbolic links are different files; the paths of a
\* list are taken as different files when they lead to different regular
\* files.
C28_UrlsAreDistinct ==
    (/\ phase = "done"
     /\ \A p \in DOMAIN fs : fs[p].kind # "link"
     /\ call.op \in {"secure.load_directory", "base.load_directory",
                     "secure.load_files", "base.load_files"}
     /\ call.arg.shape = "list" =>
           \A j, k \in 1..Len(call.arg.paths) :
               j # k => /\ IsFile(call.arg.paths[j])
                        /\ IsFile(call.arg.paths[k])
                        /\ Resolve(call.arg.paths[j]).path # Resolve(call.arg.paths[k]).path) =>
        \A j, k \in 1..Len(res.docs) : j # k => res.docs[j].url # res.docs[k].url

\* C30: for a path that leaves its starting directory (the directory named
\* before its first '..') through '..' segments, _is_safe_path is False and
\* load returns [] without reading the file.
C30_EscapingPathRejected ==
    LET path == call.arg.path
        FirstDotDot == CHOOSE i \in 1..Len(path) :
                          path[i] = DOTDOT /\ \A j \in 1..(i - 1) : path[j] # DOTDOT
    IN  (/\ phase = "done"
         /\ call.op = "document.load"
         /\ \E i \in 1..Len(path) : path[i] = DOTDOT
         /\ ~IsPrefix(SubSeq(path, 1, FirstDotDot - 1), Resolve(path).path)) =>
            /\ ~is_safe_path(path)
            /\ res.docs = <<>>
            /\ res.reads = {}

(***************************************************************************)
(* Concurrent calls on one secure orchestrator.  Every call is an asyncio  *)
(* task; tasks holds, per task, the call it runs ("file" for load_file,    *)
(* also when started by load_files, "dir" for load_directory), where it    *)
(* stands and the files load_directory still has to load.                  *)
(***************************************************************************)
NTasks == MaxConcurrent + 1
\* tasks started on the orchestrator

\* a semaphore that never refuses a slot
locked_never(value, waiters) == FALSE

\* asyncio.Semaphore.locked: no free slot, or somebody is already waiting
locked(value, waiters) == value = 0 \/ waiters # <<>>

Task(kind, left) == [kind |-> kind, pc |-> "start", left |-> left]

\* where a task goes on when acquire() returns
Granted(pc) ==
    IF pc = "start_dir" \/ pc = "outer_waiting" THEN "holding" ELSE "reading"

\* where a task stands while it is blocked in acquire()
Blocked(pc) ==
    IF pc = "start_dir" THEN "outer_waiting"
    ELSE IF pc = "holding" THEN "inner_waiting"
    ELSE "waiting"

\* RateLimiter.acquire, called by task t
acquire(t) ==
    IF ~locked(sem, waitq)
    THEN /\ sem' = sem - 1
         /\ waitq' = waitq
         /\ tasks' = [tasks EXCEPT ![t].pc = Granted(tasks[t].pc)]
    ELSE /\ sem' = sem
         /\ waitq' = Append(waitq, t)
         /\ tasks' = [tasks EXCEPT ![t].pc = Blocked(tasks[t].pc)]

\* RateLimiter.release, called by task t that goes on at pc: the slot goes
\* to the task that waited longest, if any
release(t, pc, left) ==
    IF waitq # <<>>
    THEN /\ sem' = sem
         /\ waitq' = Tail(waitq)
         /\ tasks' = [tasks EXCEPT ![t].pc = pc, ![t].left = left,
                                   ![Head(waitq)].pc = Granted(tasks[Head(waitq)].pc)]
    ELSE /\ sem' = sem + 1
         /\ waitq' = waitq
         /\ tasks' = [tasks EXCEPT ![t].pc = pc, ![t].left = left]

\* the read operations in progress
Reading == {t \in DOMAIN tasks : tasks[t].pc = "reading"}

\* a call of load_file starts
CallLoadFile ==
    /\ Len(tasks) < NTasks
    /\ tasks' = Append(tasks, Task("file", 0))
    /\ UNCHANGED <<loadVars, srvVars, sem, waitq>>

\* a call of load_files starts: gather runs one load_file task per path
CallLoadFiles ==
    /\ \E n \in 2..MaxListLen :
          /\ Len(tasks) + n <= NTasks
          /\ tasks' = tasks \o [i \in 1..n |-> Task("file", 0)]
    /\ UNCHANGED <<loadVars, srvVars, sem, waitq>>

\* a call of load_directory starts, the traversal having found n files
CallLoadDirectory ==
    /\ Len(tasks) < NTasks
    /\ \E n \in 1..MaxFilesPerDirectory :
          tasks' = Append(tasks, [kind |-> "dir", pc |-> "start_dir", left |-> n])
    /\ UNCHANGED <<loadVars, srvVars, sem, waitq>>

\* load_file: validate_path raised, the call returns [] without a slot
FileRejected ==
    /\ \E t \in DOMAIN tasks :
          /\ tasks[t].kind = "file" /\ tasks[t].pc = "start"
          /\ tasks' = [tasks EXCEPT ![t].pc = "rejected"]
    /\ UNCHANGED <<loadVars, srvVars, sem, waitq>>

\* load_file: async with self.rate_limiter, entered
FileAcquire ==
    /\ \E t \in DOMAIN tasks :
          /\ tasks[t].kind = "file" /\ tasks[t].pc = "start"
          /\ acquire(t)
    /\ UNCHANGED <<loadVars, srvVars>>

\* load_file: the loader has returned, the slot is given back
FileRelease ==
    /\ \E t \in DOMAIN tasks :
          /\ tasks[t].kind = "file" /\ tasks[t].pc = "reading"
          /\ release(t, "done", 0)
    /\ UNCHANGED <<loadVars, srvVars>>

\* load_directory: async with self.rate_limiter around the next file
DirOuterAcquire ==
    /\ \E t \in DOMAIN tasks :
          /\ tasks[t].kind = "dir" /\ tasks[t].pc = "start_dir"
          /\ acquire(t)
    /\ UNCHANGED <<loadVars, srvVars>>

\* load_directory calls self.load_file, which enters the rate limiter again
DirInnerAcquire ==
    /\ \E t \in DOMAIN tasks :
          /\ tasks[t].kind = "dir" /\ tasks[t].pc = "holding"
          /\ acquire(t)
    /\ UNCHANGED <<loadVars, srvVars>>

\* the load_file called by load_directory gives its slot back
DirInnerRelease ==
    /\ \E t \in DOMAIN tasks :
          /\ tasks[t].kind = "dir" /\ tasks[t].pc = "reading"
          /\ release(t, "loaded", tasks[t].left)
    /\ UNCHANGED <<loadVars, srvVars>>

\* load_directory leaves its own async with and goes to the next file
DirOuterRelease ==
    /\ \E t \in DOMAIN tasks :
          /\ tasks[t].kind = "dir" /\ tasks[t].pc = "loaded"
          /\ release(t, IF tasks[t].left > 1 THEN "start_dir" ELSE "done",
                     tasks[t].left - 1)
    /\ UNCHANGED <<loadVars, srvVars>>

InitConc ==
    /\ fs \in FsHidden
    /\ phase = "idle"
    /\ call = NoCall
    /\ res = NoRes
    /\ sem = MaxConcurrent
    /\ waitq = <<>>
    /\ tasks = <<>>
    /\ environ = [v \in {} |-> <<>>]
    /\ loader = LoaderInit(TRUE, BASE)
    /\ formats = InitialFormats
    /\ NoRequests

NextConc ==
    \/ CallLoadFile
    \/ CallLoadFiles
    \/ CallLoadDirectory
    \/ FileRejected
    \/ FileAcquire
    \/ FileRelease
    \/ DirOuterAcquire
    \/ DirInnerAcquire
    \/ DirInnerRelease
    \/ DirOuterRelease

SpecConc == InitConc /\ [][NextConc]_vars

\* C7: in every interleaving of load_file, load_files and load_directory
\* calls on one orchestrator, the file reads in progress never exceed the
\* rate limiter's max_concurrent.
C7_ReadsWithinLimit == Cardinality(Reading) <= MaxConcurrent

\* every slot is taken by a read and another call waits for one
C7_AllSlotsReadingOneWaits ==
    /\ Cardinality(Reading) = MaxConcurrent
    /\ waitq # <<>>

\* a step of a task that has been started: the event loop runs every task
\* that is ready, so a step that stays possible is eventually taken
TaskStep ==
    \/ FileRejected
    \/ FileAcquire
    \/ FileRelease
    \/ DirOuterAcquire
    \/ DirInnerAcquire
    \/ DirInnerRelease
    \/ DirOuterRelease

SpecConcFair == InitConc /\ [][NextConc]_vars /\ WF_vars(TaskStep)

\* C21: every load_directory call started on the orchestrator eventually
\* completes, whatever load_directory and load_files calls run beside it.
C21_LoadDirectoryCompletes ==
    \A t \in 1..NTasks :
        (t \in DOMAIN tasks /\ tasks[t].kind = "dir")
            ~> (t \in DOMAIN tasks /\ tasks[t].pc = "done")

====
